---- MODULE Spec2Model ----
(***************************************************************************)
(* Schedule-Maker: the persisted-schedule codec (save_schedule_data /      *)
(* load_schedule_data), the notes file, the backup-on-write and the HTML   *)
(* renderer of src/Smaker/schedule_manager.py, with the helpers of         *)
(* src/Smaker/utils.py and the tables of src/Smaker/config.py.             *)
(*                                                                         *)
(* A Python str is a sequence of one-character strings.  Characters that   *)
(* TLA+ cannot write are named: "ESC" is \x1B, "NUL" is \x00, "DEL" is     *)
(* \x7F, "BACKTICK" is the grave accent.  "DEEP" stands for a run of '['   *)
(* longer than the interpreter's recursion limit (run-length shorthand     *)
(* for a real file content).                                               *)
(***************************************************************************)
EXTENDS Integers, Sequences, FiniteSets, TLC

VARIABLES schedule, additional_notes, answers_file, notes_file, backups, now, call, html,
          text_schedule, reminders_text,
          credentials, keyring, credentials_file, generated, outbox,
          gui

vars == <<schedule, additional_notes, answers_file, notes_file, backups, now, call, html,
          text_schedule, reminders_text,
          credentials, keyring, credentials_file, generated, outbox,
          gui>>

\* the manager's schedule, notes and documents; its credentials, keyring and mail
docvars == <<schedule, additional_notes, answers_file, notes_file, backups, now, html,
             text_schedule, reminders_text>>

mailvars == <<credentials, keyring, credentials_file, generated, outbox>>

(***************************************************************************)
(* Bounds of the model.                                                    *)
(***************************************************************************)
\* longest generated user text (every string over Alphabet up to this length)
MaxLen == 2
\* saves in one run of the store specification
MaxSaves == 2
\* largest clock value (seconds) in the store specification
MaxClock == 1

(***************************************************************************)
(* Python str operations.                                                  *)
(***************************************************************************)
\* s[i:i+len(p)] == p   (1-based i)
IsPrefixAt(s, p, i) ==
    /\ i >= 1
    /\ i + Len(p) - 1 <= Len(s)
    /\ \A k \in 1..Len(p) : s[i + k - 1] = p[k]

\* a local name: Body applied to the value v, which is computed once
With(v, Body(_)) == Body(v)

\* min(S), max(S) of a non-empty set of integers
Min(S) == CHOOSE i \in S : \A j \in S : i <= j

Max(S) == CHOOSE i \in S : \A j \in S : i >= j

\* s.find(p, from): the leftmost index >= from where p occurs, 0 when none
Find(s, p, from) ==
    With({i \in from..(Len(s) - Len(p) + 1) : IsPrefixAt(s, p, i)},
         LAMBDA hits : IF hits = {} THEN 0 ELSE Min(hits))

\* p in s
Contains(s, p) == Find(s, p, 1) # 0

\* s.replace(old, new): leftmost, non-overlapping
RECURSIVE Replace(_, _, _)
Replace(s, old, new) ==
    With(Find(s, old, 1),
         LAMBDA i : IF i = 0 THEN s
                    ELSE SubSeq(s, 1, i - 1) \o new
                         \o Replace(SubSeq(s, i + Len(old), Len(s)), old, new))

\* f.read() of a file opened in text mode: '\r\n' and '\r' are read as '\n'
ReadText(content) == Replace(Replace(content, <<"\r", "\n">>, <<"\n">>), <<"\r">>, <<"\n">>)

\* s.split(sep): the list of fields (sep a non-empty str)
RECURSIVE Split(_, _)
Split(s, sep) ==
    With(Find(s, sep, 1),
         LAMBDA i : IF i = 0 THEN <<s>>
                    ELSE <<SubSeq(s, 1, i - 1)>> \o Split(SubSeq(s, i + Len(sep), Len(s)), sep))

\* s.split(sep, 1): at most one split, at the leftmost occurrence
SplitOnce(s, sep) ==
    With(Find(s, sep, 1),
         LAMBDA i : IF i = 0 THEN <<s>>
                    ELSE <<SubSeq(s, 1, i - 1), SubSeq(s, i + Len(sep), Len(s))>>)

\* the characters str.strip() removes
Whitespace == {" ", "\t", "\n", "\r", "\f"}

\* s.strip()
Strip(s) ==
    With({i \in 1..Len(s) : s[i] \notin Whitespace},
         LAMBDA keep : IF keep = {} THEN <<>> ELSE SubSeq(s, Min(keep), Max(keep)))

\* "".join(parts)
RECURSIVE Concat(_)
Concat(parts) == IF parts = <<>> THEN <<>> ELSE Head(parts) \o Concat(Tail(parts))

(***************************************************************************)
(* src/Smaker/config.py                                                    *)
(***************************************************************************)
DAYS == <<"Monday", "Tues", "Wed", "Thur", "Fri", "Sat", "Sun">>

DaySet == {DAYS[i] : i \in 1..Len(DAYS)}

\* the characters of a day identifier, as written into f-strings
DayChars(day) ==
    CASE day = "Monday" -> <<"M", "o", "n", "d", "a", "y">>
      [] day = "Tues"   -> <<"T", "u", "e", "s">>
      [] day = "Wed"    -> <<"W", "e", "d">>
      [] day = "Thur"   -> <<"T", "h", "u", "r">>
      [] day = "Fri"    -> <<"F", "r", "i">>
      [] day = "Sat"    -> <<"S", "a", "t">>
      [] day = "Sun"    -> <<"S", "u", "n">>

\* the table without its "Sun" row: the fallback of .get(day, "11:00-3:00")
DEFAULT_STUDY_TIMES_without_Sun(day) ==
    <<"1", "1", ":", "0", "0", "-", "3", ":", "0", "0">>

DEFAULT_STUDY_TIMES(day) ==
    IF day = "Sun" THEN <<"1", "2", ":", "0", "0", "-", "2", ":", "0", "0">>
    ELSE <<"1", "1", ":", "0", "0", "-", "3", ":", "0", "0">>

PLAN_SAVE_SEPARATOR == <<"|", "|", "P", "L", "A", "N", "S", "|", "|">>

\* datetime.now().strftime("%Y-%m-%d") at import time: fixed for the process
CURRENT_DATE == <<"2", "0", "2", "6", "-", "1", "1", "-", "0", "2">>

(***************************************************************************)
(* src/Smaker/utils.py                                                     *)
(***************************************************************************)
\* [\x00-\x1F\x7F]
ControlChars == {"NUL", "\t", "\n", "\r", "\f", "ESC", "DEL"}

\* the character class of sanitize_input's pattern
UnsafeCharsAndPipe == {";", "&", "<", ">", "$", "BACKTICK", "\\", "|"} \cup ControlChars

UnsafeChars == {";", "&", "<", ">", "$", "BACKTICK", "\\"} \cup ControlChars

SENTINEL == <<"D", "I", "E", "E", "E", "E", "E">>

\* re.sub(..., count=1)
sanitize_input_first_only(text) ==
    IF text = <<>> THEN <<>>
    ELSE IF text = SENTINEL THEN text
    ELSE IF \A i \in 1..Len(text) : text[i] \notin UnsafeChars THEN text
    ELSE SubSeq(text, 1, Min({i \in 1..Len(text) : text[i] \in UnsafeChars}) - 1)
         \o SubSeq(text, Min({i \in 1..Len(text) : text[i] \in UnsafeChars}) + 1, Len(text))

sanitize_input(text) ==
    IF text = <<>> THEN <<>>
    ELSE IF text = SENTINEL THEN text
    ELSE SelectSeq(text, LAMBDA c : c \notin UnsafeChars)

(***************************************************************************)
(* re.sub(pattern, '', text) for the patterns of clean_text.  A pattern is *)
(* a literal prefix, a starred character class, and a terminator; every    *)
(* terminator starts with a character outside the class, so the greedy     *)
(* star takes the maximal run and backtracking cannot change the match.    *)
(* kind "any" is  prefix .* terminator : the star stops at a newline and   *)
(* backtracks to the last terminator on the line.                          *)
(***************************************************************************)
InClass(c, pat) == IF pat.neg THEN c \notin pat.cls ELSE c \in pat.cls

\* [cls]*term at j0: the class run is greedy and never gives a character back
MatchClass(s, j0, pat) ==
    With({j \in j0..Len(s) : ~InClass(s[j], pat)},
         LAMBDA stops :
           With(IF stops = {} THEN Len(s) + 1 ELSE Min(stops),
                LAMBDA j :
                  With({t \in pat.terms : t = <<>> \/ IsPrefixAt(s, t, j)},
                       LAMBDA ts : IF ts = {} THEN 0
                                   ELSE j + Len(CHOOSE t \in ts : TRUE) - 1)))

\* .*term at j0: the last occurrence of term on the line
MatchAny(s, j0, pat) ==
    With({j \in j0..Len(s) : s[j] = "\n"},
         LAMBDA nls :
           With(CHOOSE x \in pat.terms : TRUE,
                LAMBDA t :
                  With({j \in j0..((IF nls = {} THEN Len(s) + 1 ELSE Min(nls)) - Len(t)) :
                           IsPrefixAt(s, t, j)},
                       LAMBDA hits : IF hits = {} THEN 0 ELSE Max(hits) + Len(t) - 1)))

\* index of the last character of the match of pat starting at i, 0 when none
MatchEnd(s, i, pat) ==
    IF ~IsPrefixAt(s, pat.prefix, i) THEN 0
    ELSE IF pat.kind = "class" THEN MatchClass(s, i + Len(pat.prefix), pat)
    ELSE MatchAny(s, i + Len(pat.prefix), pat)

RECURSIVE ReSub(_, _)

\* the rest of re.sub once the leftmost match starts at i
ReSubFrom(s, pat, i) ==
    SubSeq(s, 1, i - 1) \o ReSub(SubSeq(s, MatchEnd(s, i, pat) + 1, Len(s)), pat)

\* re.sub(pat, '', s): leftmost non-overlapping matches removed
ReSub(s, pat) ==
    With({i \in 1..Len(s) : MatchEnd(s, i, pat) # 0},
         LAMBDA starts : IF starts = {} THEN s ELSE ReSubFrom(s, pat, Min(starts)))

Digits10 == <<"0", "1", "2", "3", "4", "5", "6", "7", "8", "9">>

Digits == {Digits10[i] : i \in 1..Len(Digits10)}

\* r'\x1B\[[0-9;]*[JKmsu]'
PatAnsi ==
    [kind |-> "class", prefix |-> <<"ESC", "[">>, cls |-> Digits \cup {";"}, neg |-> FALSE,
     terms |-> {<<"J">>, <<"K">>, <<"m">>, <<"s">>, <<"u">>}]

\* r'\[[0-9;]*m'
PatColor ==
    [kind |-> "class", prefix |-> <<"[">>, cls |-> Digits \cup {";"}, neg |-> FALSE,
     terms |-> {<<"m">>}]

\* r'Study information for [^:]*:'
PatStudy ==
    [kind |-> "class",
     prefix |-> <<"S", "t", "u", "d", "y", " ", "i", "n", "f", "o", "r", "m", "a", "t", "i", "o", "n", " ", "f", "o", "r", " ">>,
     cls |-> {":"}, neg |-> TRUE, terms |-> {<<":">>}]

\* r'Enter specific study goals for [^(]*\(press Enter for none\):'
PatGoals ==
    [kind |-> "class",
     prefix |-> <<"E", "n", "t", "e", "r", " ", "s", "p", "e", "c", "i", "f", "i", "c", " ", "s", "t", "u", "d", "y", " ", "g", "o", "a", "l", "s", " ", "f", "o", "r", " ">>,
     cls |-> {"("}, neg |-> TRUE,
     terms |-> {<<"(", "p", "r", "e", "s", "s", " ", "E", "n", "t", "e", "r", " ", "f", "o", "r", " ", "n", "o", "n", "e", ")", ":">>}]

\* r'Work information for [^:]*:'
PatWork ==
    [kind |-> "class",
     prefix |-> <<"W", "o", "r", "k", " ", "i", "n", "f", "o", "r", "m", "a", "t", "i", "o", "n", " ", "f", "o", "r", " ">>,
     cls |-> {":"}, neg |-> TRUE, terms |-> {<<":">>}]

\* r'Add another plan for .* \(y/n\):'
PatAnother ==
    [kind |-> "any",
     prefix |-> <<"A", "d", "d", " ", "a", "n", "o", "t", "h", "e", "r", " ", "p", "l", "a", "n", " ", "f", "o", "r", " ">>,
     cls |-> {}, neg |-> FALSE, terms |-> {<<" ", "(", "y", "/", "n", ")", ":">>}]

\* r'Plan Name:'
PatPlanName ==
    [kind |-> "class", prefix |-> <<"P", "l", "a", "n", " ", "N", "a", "m", "e", ":">>,
     cls |-> {}, neg |-> FALSE, terms |-> {<<>>}]

\* r'Plan Details \(e\.g\., hours, location\):'
PatPlanDetails ==
    [kind |-> "class",
     prefix |-> <<"P", "l", "a", "n", " ", "D", "e", "t", "a", "i", "l", "s", " ", "(", "e", ".", "g", ".", ",", " ", "h", "o", "u", "r", "s", ",", " ", "l", "o", "c", "a", "t", "i", "o", "n", ")", ":">>,
     cls |-> {}, neg |-> FALSE, terms |-> {<<>>}]

clean_text(text) ==
    IF text = <<>> THEN <<>>
    ELSE Strip(ReSub(ReSub(ReSub(ReSub(ReSub(ReSub(ReSub(ReSub(text,
            PatAnsi), PatColor), PatStudy), PatGoals), PatWork), PatAnother),
            PatPlanName), PatPlanDetails))

(***************************************************************************)
(* json.dumps(valid_plans, ensure_ascii=False) and json.loads, as the      *)
(* codec uses them.  A decoded value is tagged: [t |-> "str", v |-> chars],*)
(* [t |-> "list", v |-> items], [t |-> "dict", v |-> <<[k, v], ...>>],     *)
(* [t |-> "lit", v |-> "null" | "true" | "false"], [t |-> "int", v |->     *)
(* chars].  \uXXXX escapes, floats, NaN and Infinity are outside the       *)
(* modelled inputs.                                                        *)
(***************************************************************************)
\* json's ESCAPE_DCT for one character (ensure_ascii=False)
JsonEscapeChar(c) ==
    CASE c = "\"" -> <<"\\", "\"">>
      [] c = "\\" -> <<"\\", "\\">>
      [] c = "\n" -> <<"\\", "n">>
      [] c = "\r" -> <<"\\", "r">>
      [] c = "\t" -> <<"\\", "t">>
      [] c = "\f" -> <<"\\", "f">>
      [] c = "NUL" -> <<"\\", "u", "0", "0", "0", "0">>
      [] c = "ESC" -> <<"\\", "u", "0", "0", "1", "b">>
      [] OTHER -> <<c>>

\* json.dumps of a str
JsonDumpsStr(text) ==
    <<"\"">> \o Concat([i \in 1..Len(text) |-> JsonEscapeChar(text[i])]) \o <<"\"">>

\* json.dumps of {'name': ..., 'details': ...} (keys in insertion order)
JsonDumpsPlan(p) ==
    <<"{", "\"", "n", "a", "m", "e", "\"", ":", " ">> \o JsonDumpsStr(p.name)
    \o <<",", " ", "\"", "d", "e", "t", "a", "i", "l", "s", "\"", ":", " ">>
    \o JsonDumpsStr(p.details) \o <<"}">>

\* json.dumps of the list of plans: items joined by ", "
RECURSIVE JsonDumpsItems(_)
JsonDumpsItems(plans) ==
    IF plans = <<>> THEN <<>>
    ELSE IF Len(plans) = 1 THEN JsonDumpsPlan(plans[1])
    ELSE JsonDumpsPlan(plans[1]) \o <<",", " ">> \o JsonDumpsItems(Tail(plans))

json_dumps(plans) == <<"[">> \o JsonDumpsItems(plans) \o <<"]">>

\* json.decoder.WHITESPACE
JsonWs == {" ", "\t", "\n", "\r"}

RECURSIVE SkipWs(_, _)
SkipWs(s, i) == IF i <= Len(s) /\ s[i] \in JsonWs THEN SkipWs(s, i + 1) ELSE i

JsonErr(kind) == [st |-> kind, val |-> [t |-> "lit", v |-> "null"], pos |-> 0]

JsonOk(val, pos) == [st |-> "ok", val |-> val, pos |-> pos]

\* json.decoder.BACKSLASH
JsonUnescape(e) ==
    CASE e = "n" -> "\n"
      [] e = "r" -> "\r"
      [] e = "t" -> "\t"
      [] e = "f" -> "\f"
      [] e = "b" -> "BS"
      [] OTHER -> e

\* py_scanstring(s, i) with strict=True: i is just after the opening quote
RECURSIVE ScanString(_, _, _)
ScanString(s, i, acc) ==
    IF i > Len(s) THEN JsonErr("JSONDecodeError")
    ELSE IF s[i] = "\"" THEN JsonOk([t |-> "str", v |-> acc], i + 1)
    ELSE IF s[i] = "\\"
         THEN IF i + 1 > Len(s) \/ s[i + 1] \notin {"\"", "\\", "/", "b", "f", "n", "r", "t"}
              THEN JsonErr("JSONDecodeError")
              ELSE ScanString(s, i + 2, Append(acc, JsonUnescape(s[i + 1])))
    ELSE IF s[i] \in ControlChars \ {"DEL"} THEN JsonErr("JSONDecodeError")
    ELSE ScanString(s, i + 1, Append(acc, s[i]))

\* the index after the run of digits that starts at i
RECURSIVE DigitsEnd(_, _)
DigitsEnd(s, i) == IF i <= Len(s) /\ s[i] \in Digits THEN DigitsEnd(s, i + 1) ELSE i

\* -?(0|[1-9][0-9]*) with the sign already skipped
IntDigitsEnd(s, d0) ==
    IF d0 > Len(s) \/ s[d0] \notin Digits THEN 0
    ELSE IF s[d0] = "0" THEN d0 + 1
    ELSE DigitsEnd(s, d0)

\* NUMBER_RE restricted to integers: -?(0|[1-9][0-9]*); the index after it, 0 when none
IntEnd(s, i) == IntDigitsEnd(s, IF i <= Len(s) /\ s[i] = "-" THEN i + 1 ELSE i)

\* dict assignment: a repeated key keeps its place and takes the new value
DictPut(pairs, k, v) ==
    IF \E n \in 1..Len(pairs) : pairs[n].k = k
    THEN [n \in 1..Len(pairs) |-> IF pairs[n].k = k THEN [k |-> k, v |-> v] ELSE pairs[n]]
    ELSE Append(pairs, [k |-> k, v |-> v])

RECURSIVE ScanValue(_, _)
RECURSIVE ScanArray(_, _, _)
RECURSIVE ScanObject(_, _, _)

\* the array after '[' and whitespace, at j
ArrayAt(s, j) ==
    IF j <= Len(s) /\ s[j] = "]" THEN JsonOk([t |-> "list", v |-> <<>>], j + 1)
    ELSE ScanArray(s, j, <<>>)

\* the object after '{' and whitespace, at j
ObjectAt(s, j) ==
    IF j <= Len(s) /\ s[j] = "}" THEN JsonOk([t |-> "dict", v |-> <<>>], j + 1)
    ELSE ScanObject(s, j, <<>>)

\* a number at i, e the index after it (0 when there is none)
NumberAt(s, i, e) ==
    IF e # 0 THEN JsonOk([t |-> "int", v |-> SubSeq(s, i, e - 1)], e)
    ELSE JsonErr("JSONDecodeError")

\* scan_once(s, i)
ScanValue(s, i) ==
    IF i > Len(s) THEN JsonErr("JSONDecodeError")
    ELSE IF s[i] = "DEEP" THEN JsonErr("RecursionError")
    ELSE IF s[i] = "\"" THEN ScanString(s, i + 1, <<>>)
    ELSE IF s[i] = "[" THEN ArrayAt(s, SkipWs(s, i + 1))
    ELSE IF s[i] = "{" THEN ObjectAt(s, SkipWs(s, i + 1))
    ELSE IF IsPrefixAt(s, <<"n", "u", "l", "l">>, i) THEN JsonOk([t |-> "lit", v |-> "null"], i + 4)
    ELSE IF IsPrefixAt(s, <<"t", "r", "u", "e">>, i) THEN JsonOk([t |-> "lit", v |-> "true"], i + 4)
    ELSE IF IsPrefixAt(s, <<"f", "a", "l", "s", "e">>, i) THEN JsonOk([t |-> "lit", v |-> "false"], i + 5)
    ELSE NumberAt(s, i, IntEnd(s, i))

\* after an array item: ']' ends the list, ',' continues it
ArrayNext(s, j, items) ==
    IF j > Len(s) THEN JsonErr("JSONDecodeError")
    ELSE IF s[j] = "]" THEN JsonOk([t |-> "list", v |-> items], j + 1)
    ELSE IF s[j] # "," THEN JsonErr("JSONDecodeError")
    ELSE ScanArray(s, SkipWs(s, j + 1), items)

\* JSONArray's loop: i is where the next item starts
ScanArray(s, i, acc) ==
    With(ScanValue(s, i),
         LAMBDA r : IF r.st # "ok" THEN r
                    ELSE ArrayNext(s, SkipWs(s, r.pos), Append(acc, r.val)))

\* after an object's value: '}' ends the dict, ',' continues it
ObjectNext(s, j, pairs) ==
    IF j > Len(s) THEN JsonErr("JSONDecodeError")
    ELSE IF s[j] = "}" THEN JsonOk([t |-> "dict", v |-> pairs], j + 1)
    ELSE IF s[j] # "," THEN JsonErr("JSONDecodeError")
    ELSE ScanObject(s, SkipWs(s, j + 1), pairs)

\* the value of key k: r is the scan of what follows the colon
ObjectValue(s, acc, k, r) ==
    IF r.st # "ok" THEN r
    ELSE ObjectNext(s, SkipWs(s, r.pos), DictPut(acc, k.val.v, r.val))

\* after a key k: the colon at c, then the value
ObjectColon(s, acc, k, c) ==
    IF c > Len(s) \/ s[c] # ":" THEN JsonErr("JSONDecodeError")
    ELSE With(ScanValue(s, SkipWs(s, c + 1)), LAMBDA r : ObjectValue(s, acc, k, r))

\* JSONObject's loop: i is where the next key's opening quote must be
ScanObject(s, i, acc) ==
    IF i > Len(s) \/ s[i] # "\"" THEN JsonErr("JSONDecodeError")
    ELSE With(ScanString(s, i + 1, <<>>),
              LAMBDA k : IF k.st # "ok" THEN k
                         ELSE ObjectColon(s, acc, k, SkipWs(s, k.pos)))

\* json.loads(s): leading whitespace skipped, one value, then only whitespace
json_loads(s) ==
    With(ScanValue(s, SkipWs(s, 1)),
         LAMBDA r : IF r.st # "ok" THEN r
                    ELSE IF SkipWs(s, r.pos) <= Len(s) THEN JsonErr("JSONDecodeError")
                    ELSE r)

\* repr() of a str: single quotes unless it holds ' and no "
PyReprQuote(text) ==
    IF (\E i \in 1..Len(text) : text[i] = "'") /\ ~(\E i \in 1..Len(text) : text[i] = "\"")
    THEN "\"" ELSE "'"

PyReprEscape(c, q) ==
    CASE c = "\\" -> <<"\\", "\\">>
      [] c = q -> <<"\\", c>>
      [] c = "\n" -> <<"\\", "n">>
      [] c = "\t" -> <<"\\", "t">>
      [] c = "\r" -> <<"\\", "r">>
      [] OTHER -> <<c>>

PyReprStr(text) ==
    With(PyReprQuote(text),
         LAMBDA q : <<q>> \o Concat([i \in 1..Len(text) |-> PyReprEscape(text[i], q)]) \o <<q>>)

\* ", ".join(parts)
RECURSIVE JoinComma(_)
JoinComma(parts) ==
    IF parts = <<>> THEN <<>>
    ELSE IF Len(parts) = 1 THEN parts[1]
    ELSE parts[1] \o <<",", " ">> \o JoinComma(Tail(parts))

\* digits of an int literal as Python prints the int ("-0" is 0)
PyStrInt(chars) == IF chars = <<"-", "0">> THEN <<"0">> ELSE chars

\* repr(x) of a decoded JSON value
RECURSIVE PyRepr(_)
PyRepr(x) ==
    CASE x.t = "str" -> PyReprStr(x.v)
      [] x.t = "int" -> PyStrInt(x.v)
      [] x.t = "lit" -> (CASE x.v = "null" -> <<"N", "o", "n", "e">>
                           [] x.v = "true" -> <<"T", "r", "u", "e">>
                           [] x.v = "false" -> <<"F", "a", "l", "s", "e">>)
      [] x.t = "list" -> <<"[">> \o JoinComma([i \in 1..Len(x.v) |-> PyRepr(x.v[i])]) \o <<"]">>
      [] x.t = "dict" -> <<"{">> \o JoinComma([i \in 1..Len(x.v) |->
                              PyReprStr(x.v[i].k) \o <<":", " ">> \o PyRepr(x.v[i].v)]) \o <<"}">>

\* str(x) of a decoded JSON value
PyStr(x) == IF x.t = "str" THEN x.v ELSE PyRepr(x)

\* str(item.get(key, ''))
ItemGetStr(item, key) ==
    With({n \in 1..Len(item.v) : item.v[n].k = key},
         LAMBDA hits : IF hits = {} THEN <<>> ELSE PyStr(item.v[CHOOSE n \in hits : TRUE].v))

(***************************************************************************)
(* ScheduleManager: the data model.  A schedule is a function from day     *)
(* identifiers to [study_time, goals, plans]; a plan is [name, details].   *)
(***************************************************************************)
DefaultDay(day) == [study_time |-> DEFAULT_STUDY_TIMES(day), goals |-> <<>>, plans |-> <<>>]

initialize_default_schedule == [day \in DaySet |-> DefaultDay(day)]

\* schedule_to_save.get(day, {})
GetDayOrEmpty(sched, day) ==
    IF day \in DOMAIN sched THEN sched[day] ELSE [study_time |-> <<>>, goals |-> <<>>, plans |-> <<>>]

\* schedule_to_save.get(day, self.initialize_default_schedule()[day])
GetDay(sched, day) == IF day \in DOMAIN sched THEN sched[day] ELSE DefaultDay(day)

(***************************************************************************)
(* save_schedule_data: the text written to ANSWERS_FILE.                   *)
(***************************************************************************)
\* x.replace('"', '\\"'), backslashes left as they are
ShellEscapeQuotesOnly(x) == Replace(x, <<"\"">>, <<"\\", "\"">>)

\* x.replace('\\', '\\\\').replace('"', '\\"')
ShellEscape(x) == Replace(Replace(x, <<"\\">>, <<"\\", "\\">>), <<"\"">>, <<"\\", "\"">>)

\* the loop over plans: sanitized, a plan kept only when its sanitized name is not empty
\* 'if name:' : the plan appended when its sanitized name is not empty
PlanIfNamed(name, details) ==
    IF name # <<>> THEN <<[name |-> name, details |-> details]>> ELSE <<>>

RECURSIVE ValidPlans(_)
ValidPlans(plans) ==
    IF plans = <<>> THEN <<>>
    ELSE PlanIfNamed(sanitize_input(Head(plans).name), sanitize_input(Head(plans).details))
         \o ValidPlans(Tail(plans))

\* combined_data for one day
CombinedData(day_data) ==
    ShellEscape(sanitize_input(day_data.study_time)) \o <<"|">>
    \o ShellEscape(sanitize_input(day_data.goals))
    \o PLAN_SAVE_SEPARATOR
    \o ShellEscape(json_dumps(ValidPlans(day_data.plans)))

\* the head of every day line:  schedule[<day>]="
LineKey(day) == <<"s", "c", "h", "e", "d", "u", "l", "e", "[">> \o DayChars(day) \o <<"]", "=", "\"">>

\* f'schedule[{day}]="{combined_data}"\n'
DayLine(day, day_data) == LineKey(day) \o CombinedData(day_data) \o <<"\"", "\n">>

\* the lines written before the day loop
Preamble ==
    <<"#", " ", "S", "c", "h", "e", "d", "u", "l", "e", " ", "d", "a", "t", "a", " ", "s", "a", "v", "e", "d", " ", "o", "n", " ">>
    \o CURRENT_DATE \o <<"\n">>
    \o <<"d", "a", "y", "s", "=", "(", "\n">>
    \o Concat([i \in 1..Len(DAYS) |-> <<" ", " ", "\"">> \o DayChars(DAYS[i]) \o <<"\"", "\n">>])
    \o <<")", "\n", "\n">>
    \o <<"d", "e", "c", "l", "a", "r", "e", " ", "-", "A", " ", "s", "c", "h", "e", "d", "u", "l", "e", "\n">>

\* what the file holds once the first n day lines are written
WrittenText(sched, n) ==
    Preamble \o Concat([i \in 1..n |-> DayLine(DAYS[i], GetDay(sched, DAYS[i]))])

(***************************************************************************)
(* load_schedule_data: decoding one day.                                   *)
(***************************************************************************)
\* the number of backslashes that end just before j, counted back to `from`
RECURSIVE BackslashRun(_, _, _)
BackslashRun(s, from, j) ==
    IF j - 1 >= from /\ s[j - 1] = "\\" THEN 1 + BackslashRun(s, from, j - 1) ELSE 0

\* the places of content that hold a double quote
QuotePlaces(content) == {q \in 1..Len(content) : content[q] = "\""}

\* the closing quote among `closing`, the quotes after an even run of backslashes
\* ('.' is not a newline: an escape pair of backslash and newline ends the match)
QuoteAt(s, j, closing) ==
    IF closing = {} THEN 0
    ELSE IF \E k \in j..(Min(closing) - 2) :
               s[k] = "\\" /\ s[k + 1] = "\n" /\ BackslashRun(s, j, k) % 2 = 0
    THEN 0
    ELSE Min(closing)

\* the group ((?:[^"\\]|\\.)*) followed by ": the index of the closing quote when
\* the scan starts at j, 0 when the pattern cannot match there
ScanQuoted(s, j, quotes) ==
    QuoteAt(s, j, {q \in quotes : q >= j /\ BackslashRun(s, j, q) % 2 = 0})

\* the places of content where the literal head  schedule[  of the pattern occurs
KeyStarts(content) ==
    {i \in 1..Len(content) :
        content[i] = "s" /\ IsPrefixAt(content, <<"s", "c", "h", "e", "d", "u", "l", "e", "[">>, i)}

\* re.search(pattern, content): [found, data_str] of the leftmost match, looked
\* for at the places `starts` where the pattern's head occurs
SearchDay(content, day, starts, quotes) ==
    With({i \in starts : IsPrefixAt(content, LineKey(day), i)
                         /\ ScanQuoted(content, i + Len(LineKey(day)), quotes) # 0},
         LAMBDA hits :
           IF hits = {} THEN [found |-> FALSE, data_str |-> <<>>]
           ELSE [found |-> TRUE,
                 data_str |-> SubSeq(content, Min(hits) + Len(LineKey(day)),
                                     ScanQuoted(content, Min(hits) + Len(LineKey(day)), quotes) - 1)])

\* x.replace('\\"', '"').replace('\\\\', '\\')
ShellUnescape(x) == Replace(Replace(x, <<"\\", "\"">>, <<"\"">>), <<"\\", "\\">>, <<"\\">>)

\* one item of the decoded list: dicts only, sanitized again, empty names dropped
ValidatedItem(item) ==
    IF item.t = "dict"
    THEN PlanIfNamed(sanitize_input(ItemGetStr(item, <<"n", "a", "m", "e">>)),
                     sanitize_input(ItemGetStr(item, <<"d", "e", "t", "a", "i", "l", "s">>)))
    ELSE <<>>

\* the loop over the decoded list
RECURSIVE ValidatedPlans(_)
ValidatedPlans(items) ==
    IF items = <<>> THEN <<>>
    ELSE ValidatedItem(Head(items)) \o ValidatedPlans(Tail(items))

\* what the per-day try block makes of json.loads' outcome r: [raised, plans]
PlansFromLoaded(r) ==
    IF r.st = "JSONDecodeError" THEN [raised |-> FALSE, plans |-> <<>>]
    ELSE IF r.st # "ok" THEN [raised |-> TRUE, plans |-> <<>>]
    ELSE IF r.val.t = "list" THEN [raised |-> FALSE, plans |-> ValidatedPlans(r.val.v)]
    ELSE [raised |-> FALSE, plans |-> <<>>]

\* the branch 'if json_part:' : [raised, plans]
PlansFromJson(json_part) ==
    With(Strip(ShellUnescape(json_part)),
         LAMBDA json_part_cleaned :
           IF json_part_cleaned = <<>> THEN [raised |-> FALSE, plans |-> <<>>]
           ELSE PlansFromLoaded(json_loads(json_part_cleaned)))

YesNo(x) == IF x \in {<<"y", "e", "s">>, <<"n", "o">>} THEN x ELSE <<"n", "o">>

\* 'if day_notes:' : the legacy note as a plan
NotePlan(day_notes) ==
    IF day_notes # <<>> THEN <<[name |-> <<"N", "o", "t", "e">>, details |-> day_notes]>> ELSE <<>>

\* the branch for records without a JSON part: legacy work entries and note as plans
LegacyPlans(legacy_data) ==
    IF Len(legacy_data) >= 7
    THEN (IF YesNo(legacy_data[2]) = <<"y", "e", "s">>
          THEN <<[name |-> <<"D", "o", "l", "l", "a", "r", " ", "G", "e", "n", "e", "r", "a", "l">>,
                  details |-> clean_text(legacy_data[3])]>>
          ELSE <<>>)
         \o (IF YesNo(legacy_data[4]) = <<"y", "e", "s">>
             THEN <<[name |-> <<"J", "J", " ", "P", "i", "z", "z", "a">>,
                     details |-> clean_text(legacy_data[5])]>>
             ELSE <<>>)
         \o NotePlan(clean_text(legacy_data[7]))
    ELSE <<>>

\* the day's default when the cleaned field 0 is empty or holds "information"
StudyTimeOrDefault(day, study_time) ==
    IF study_time = <<>> \/ Contains(study_time, <<"i", "n", "f", "o", "r", "m", "a", "t", "i", "o", "n">>)
    THEN DEFAULT_STUDY_TIMES(day)
    ELSE study_time

\* study_time of a found day
StudyTimeOf(day, field0) == StudyTimeOrDefault(day, clean_text(field0))

\* goals of a found day as the first pass reads it: field 1, '' when there is none
GoalsOf(legacy_data) == IF Len(legacy_data) >= 2 THEN clean_text(legacy_data[2]) ELSE <<>>

\* the two branches 'if json_part:' / else, on the split record: [raised, rec]
DecodeFields(day, parts, legacy_data) ==
    IF Len(parts) > 1 /\ parts[2] # <<>>
    THEN With(PlansFromJson(parts[2]),
              LAMBDA fromJson :
                [raised |-> fromJson.raised,
                 rec |-> [study_time |-> StudyTimeOf(day, legacy_data[1]),
                          goals |-> GoalsOf(legacy_data),
                          plans |-> fromJson.plans]])
    ELSE [raised |-> FALSE,
          rec |-> [study_time |-> StudyTimeOf(day, legacy_data[1]),
                   goals |-> IF Len(legacy_data) >= 7 THEN clean_text(legacy_data[6])
                             ELSE GoalsOf(legacy_data),
                   plans |-> LegacyPlans(legacy_data)]]

\* the body of 'if match:' for one day: [raised, rec]
DecodeDay(day, data_str) ==
    With(SplitOnce(data_str, PLAN_SAVE_SEPARATOR),
         LAMBDA parts :
           With(Split(ShellUnescape(parts[1]), <<"|">>),
                LAMBDA legacy_data : DecodeFields(day, parts, legacy_data)))

\* the else branch of 'if match:' : temp_schedule[day] = defaults for the day
MissingDay(day, current) == DefaultDay(day)

\* the first exception json.loads lets through the per-day handler, in DAYS order
RECURSIVE FirstRaise(_, _)
FirstRaise(d, i) ==
    IF i > Len(DAYS) THEN "none"
    ELSE IF d[i].raised THEN "RecursionError"
    ELSE FirstRaise(d, i + 1)

\* the for loop of load_schedule_data: per day, whether a line matched and what
\* it decodes to
DecodeOne(day, m, current) ==
    IF m.found
    THEN [found |-> TRUE] @@ DecodeDay(day, m.data_str)
    ELSE [found |-> FALSE, raised |-> FALSE, rec |-> MissingDay(day, current)]

DecodeDays(content, current) ==
    With([starts |-> KeyStarts(content), quotes |-> QuotePlaces(content)],
         LAMBDA at :
           [i \in 1..Len(DAYS) |->
              DecodeOne(DAYS[i], SearchDay(content, DAYS[i], at.starts, at.quotes), current)])

\* the end of the try block: an exception of the loop, the decoded days when a line
\* matched, the defaults when none did
DecodedSchedule(d, current) ==
    IF FirstRaise(d, 1) # "none" THEN [exc |-> FirstRaise(d, 1), sched |-> current]
    ELSE IF \E i \in 1..Len(DAYS) : d[i].found
    THEN [exc |-> "none",
          sched |-> [day \in DaySet |-> d[CHOOSE i \in 1..Len(DAYS) : DAYS[i] = day].rec]]
    ELSE [exc |-> "none", sched |-> initialize_default_schedule]

\* the try block of load_schedule_data on a file that exists: [exc, sched]
DecodeContent(content, readable, current) ==
    IF ~readable THEN [exc |-> "OSError", sched |-> current]
    ELSE With(DecodeDays(ReadText(content), current), LAMBDA d : DecodedSchedule(d, current))

\* 'except FileNotFoundError' and 'except Exception': every exception of the try
\* block is handled
OuterHandlesOnlyOSError(exc) == exc \in {"OSError", "FileNotFoundError"}

OuterHandles(exc) == exc \in {"OSError", "FileNotFoundError", "RecursionError"}

\* load_schedule_data as a function of the file: [raised, sched]
LoadResult(file, readable, current) ==
    IF ~file.exists THEN [raised |-> FALSE, sched |-> initialize_default_schedule]
    ELSE With(DecodeContent(file.content, readable, current),
              LAMBDA r :
                IF r.exc = "none" THEN [raised |-> FALSE, sched |-> r.sched]
                ELSE IF OuterHandles(r.exc)
                THEN [raised |-> FALSE, sched |-> initialize_default_schedule]
                ELSE [raised |-> TRUE, sched |-> current])

(***************************************************************************)
(* The state machine.  answers_file and notes_file are [exists, content];  *)
(* backups is the set of backup files [ts, content] in ANSWERS_DIR, one    *)
(* per timestamp; now is int(time.time()); call records the last call:     *)
(* its operation, argument, injected fault and result, and the number of  *)
(* saves so far.                                                           *)
(***************************************************************************)
NoFile == [exists |-> FALSE, content |-> <<>>]

DEFAULT_EMAIL ==
    <<"y", "o", "u", "r", "_", "d", "e", "f", "a", "u", "l", "t", "_", "r", "e", "c", "i", "p", "i", "e",
      "n", "t", "@", "e", "x", "a", "m", "p", "l", "e", ".", "c", "o", "m">>

\* Python's None
None == <<"None">>

\* self.credentials as __init__ builds it
InitialCredentials ==
    [email_to |-> DEFAULT_EMAIL, email_from |-> <<>>, smtp_server |-> <<>>, smtp_port |-> 587,
     smtp_user |-> <<>>, smtp_pass |-> None]

\* the keyring of a fresh account: no password stored
EmptyKeyring == [u \in {} |-> <<>>]

NoGenerated == [schedule |-> NoFile, reminders |-> NoFile, html |-> NoFile]

NoCredentialsFile == [exists |-> FALSE, kind |-> "none", content |-> <<>>]

\* the window as ScheduleGUI.__init__ and _load_data_into_gui fill it on a fresh home
\* directory: the fields of every day, the plan lists, the notes widget and the flag
InitialGui ==
    [day_vars |-> initialize_default_schedule, notes_text |-> <<>>, notes_modified_flag |-> FALSE]

NoCall == [op |-> "init", arg |-> <<>>, fault |-> "none", ret |-> TRUE, raised |-> FALSE, saves |-> 0,
           backup |-> "none"]

\* ScheduleManager.__init__ on a fresh home directory
Init ==
    /\ schedule = initialize_default_schedule
    /\ additional_notes = <<>>
    /\ answers_file = NoFile
    /\ notes_file = NoFile
    /\ backups = {}
    /\ now = 0
    /\ call = NoCall
    /\ html = <<>>
    /\ text_schedule = <<>>
    /\ reminders_text = <<>>
    /\ credentials = InitialCredentials
    /\ keyring = EmptyKeyring
    /\ credentials_file = NoCredentialsFile
    /\ generated = NoGenerated
    /\ outbox = <<>>
    /\ gui = InitialGui

\* load_schedule_data(); readable = FALSE is an open/read/decoding error
load_schedule_data(readable) ==
    /\ \E r \in {LoadResult(answers_file, readable, schedule)} :
          /\ schedule' = r.sched
          /\ call' = [op |-> "load", arg |-> <<>>,
                      fault |-> IF readable THEN "none" ELSE "read",
                      ret |-> ~r.raised, raised |-> r.raised, saves |-> call.saves,
                      backup |-> "none"]
    /\ UNCHANGED <<additional_notes, answers_file, notes_file, backups, now, html, text_schedule, reminders_text, mailvars, gui>>

\* the content shutil.copy2 puts into the backup file
BackupContentAfterWrite(pre, post) == post

BackupContent(pre, post) == pre

\* the backup files after the 'if ANSWERS_FILE.exists():' block
BackupsAfter(file, post, backup_ok) ==
    IF file.exists /\ backup_ok
    THEN {b \in backups : b.ts # now} \cup {[ts |-> now, content |-> BackupContent(file.content, post)]}
    ELSE backups

\* self.schedule after the call, when the assignment is made before the write
ScheduleAfterSaveAssignedFirst(ok, schedule_to_save, current) == schedule_to_save

\* self.schedule after the call: assigned after the with block and chmod only
ScheduleAfterSave(ok, schedule_to_save, current) == IF ok THEN schedule_to_save ELSE current

\* save_schedule_data(schedule_to_save).  fault: "none", "mkdir" (parent directory
\* cannot be made; only when the file is absent), "open" (open(..., 'w') fails),
\* "write" (an I/O error after `written` day lines).  backup_ok: copy2 succeeds.
save_schedule_data(schedule_to_save, fault, written, backup_ok) ==
    /\ fault = "mkdir" => ~answers_file.exists
    /\ answers_file' =
          CASE fault = "none" -> [exists |-> TRUE, content |-> WrittenText(schedule_to_save, Len(DAYS))]
            [] fault = "write" -> [exists |-> TRUE, content |-> WrittenText(schedule_to_save, written)]
            [] OTHER -> answers_file
    /\ backups' = IF fault = "mkdir" THEN backups
                  ELSE BackupsAfter(answers_file, answers_file'.content, backup_ok)
    /\ schedule' = ScheduleAfterSave(fault = "none", schedule_to_save, schedule)
    /\ call' = [op |-> "save", arg |-> schedule_to_save, fault |-> fault,
                ret |-> fault = "none", raised |-> FALSE, saves |-> call.saves + 1,
                backup |-> IF fault = "mkdir" \/ ~answers_file.exists THEN "none"
                           ELSE IF backup_ok THEN "ok" ELSE "failed"]
    /\ UNCHANGED <<additional_notes, notes_file, now, html, text_schedule, reminders_text, mailvars, gui>>

\* load_notes().  readable: open/read of the notes file succeeds
load_notes(readable) ==
    /\ additional_notes' =
          IF notes_file.exists /\ Len(notes_file.content) > 0 /\ readable
          THEN ReadText(notes_file.content) ELSE <<>>
    /\ call' = [op |-> "load_notes", arg |-> <<>>,
                fault |-> IF readable THEN "none" ELSE "read",
                ret |-> TRUE, raised |-> FALSE, saves |-> call.saves, backup |-> "none"]
    /\ UNCHANGED <<schedule, answers_file, notes_file, backups, now, html, text_schedule, reminders_text, mailvars, gui>>

\* save_notes(notes_content).  fault: "none", "mkdir" (only when the file is absent),
\* "open", "write" (an I/O error after `written` characters).
save_notes(notes_content, fault, written) ==
    /\ fault = "mkdir" => ~notes_file.exists
    /\ notes_file' =
          CASE fault = "none" -> [exists |-> TRUE, content |-> notes_content]
            [] fault = "write" -> [exists |-> TRUE, content |-> SubSeq(notes_content, 1, written)]
            [] OTHER -> notes_file
    /\ additional_notes' = IF fault = "none" THEN notes_content ELSE additional_notes
    /\ call' = [op |-> "save_notes", arg |-> notes_content, fault |-> fault,
                ret |-> fault = "none", raised |-> FALSE, saves |-> call.saves + 1, backup |-> "none"]
    /\ UNCHANGED <<schedule, answers_file, backups, now, html, text_schedule, reminders_text, mailvars, gui>>

\* a second of time.time() passes between two calls
Tick ==
    /\ now < MaxClock
    /\ now' = now + 1
    /\ call' = [op |-> "tick", arg |-> <<>>, fault |-> "none", ret |-> TRUE, raised |-> FALSE,
                saves |-> call.saves, backup |-> "none"]
    /\ UNCHANGED <<schedule, additional_notes, answers_file, notes_file, backups, html, text_schedule, reminders_text, mailvars, gui>>

(***************************************************************************)
(* generate_html_email.  The document is the sequence of the pieces the    *)
(* f-strings join: "markup" pieces are the literal template (abridged to   *)
(* its tags), "text" pieces are the interpolated user strings.  The CSS    *)
(* inliner re-serialises the document without changing its text nodes; the *)
(* document modelled is html_content, which is also what is returned when  *)
(* inlining fails.                                                         *)
(***************************************************************************)
\* html.escape(s, quote=True), one character
HtmlEntity(c) ==
    CASE c = "&" -> <<"&", "a", "m", "p", ";">>
      [] c = "<" -> <<"&", "l", "t", ";">>
      [] c = ">" -> <<"&", "g", "t", ";">>
      [] c = "\"" -> <<"&", "q", "u", "o", "t", ";">>
      [] c = "'" -> <<"&", "#", "x", "2", "7", ";">>
      [] OTHER -> <<c>>

\* the interpolation without html.escape
html_escape_omitted(text) == text

\* html.escape(text)
html_escape(text) == Concat([i \in 1..Len(text) |-> HtmlEntity(text[i])])

Markup(tags) == [kind |-> "markup", field |-> "", text |-> tags]

UserText(field, value) == [kind |-> "text", field |-> field, text |-> html_escape(value)]

\* 'if study_time:' and 'if goals:' : a labelled block for a non-empty field
FieldBlock(label, field, value) ==
    IF value # <<>>
    THEN <<Markup(<<"<table>", "<p>">> \o label \o <<"</p>", "<p>">>),
           UserText(field, value),
           Markup(<<"</p>", "</table>">>)>>
    ELSE <<>>

\* the filter without .strip()
visible_plans_untrimmed(plans) == SelectSeq(plans, LAMBDA p : p.details # <<>>)

\* [p for p in plans if isinstance(p, dict) and p.get('details', '').strip()]
visible_plans(plans) == SelectSeq(plans, LAMBDA p : Strip(p.details) # <<>>)

\* the loop 'for plan in visible_plans:'
RECURSIVE PlanBlocks(_)
PlanBlocks(plans) ==
    IF plans = <<>> THEN <<>>
    ELSE <<Markup(<<"<table>", "<p>">>),
           UserText("plan_name", Head(plans).name),
           Markup(<<"</p>", "<p>">>),
           UserText("plan_details", Head(plans).details),
           Markup(<<"</p>", "</table>">>)>>
         \o PlanBlocks(Tail(plans))

\* 'if not study_time and not goals and not visible_plans:'
Placeholder(day_data) ==
    IF day_data.study_time = <<>> /\ day_data.goals = <<>> /\ visible_plans(day_data.plans) = <<>>
    THEN <<Markup(<<"<table>", "<p>", "N", "o", " ", "s", "c", "h", "e", "d", "u", "l", "e", " ",
                    "s", "e", "t", "</p>", "</table>">>)>>
    ELSE <<>>

\* one day's cell
DayCell(day, day_data) ==
    <<Markup(<<"<td>", "<h3>">> \o DayChars(day) \o <<"</h3>">>)>>
    \o FieldBlock(<<"S", "t", "u", "d", "y", " ", "T", "i", "m", "e">>, "study_time", day_data.study_time)
    \o FieldBlock(<<"G", "o", "a", "l", "s">>, "goals", day_data.goals)
    \o PlanBlocks(visible_plans(day_data.plans))
    \o Placeholder(day_data)
    \o <<Markup(<<"</td>">>)>>

\* 'if notes_content and notes_content.strip():'
NotesSection(notes_content) ==
    IF Strip(notes_content) # <<>>
    THEN <<Markup(<<"<h3>", "A", "d", "d", "i", "t", "i", "o", "n", "a", "l", " ", "N", "o", "t", "e", "s",
                    "</h3>", "<pre>">>),
           UserText("notes", Strip(notes_content)),
           Markup(<<"</pre>">>)>>
    ELSE <<>>

\* html_content for a schedule and notes
HtmlContent(schedule_data, notes_content) ==
    <<Markup(<<"<html>", "<title>">> \o CURRENT_DATE \o <<"</title>", "<body>", "<table>">>)>>
    \o Concat([i \in 1..Len(DAYS) |-> DayCell(DAYS[i], GetDay(schedule_data, DAYS[i]))])
    \o <<Markup(<<"</table>">>)>>
    \o NotesSection(notes_content)
    \o <<Markup(<<"<p>">> \o CURRENT_DATE \o <<"</p>", "</body>", "</html>">>)>>

\* generate_html_email() on the manager's schedule and notes
generate_html_email ==
    /\ html' = HtmlContent(schedule, additional_notes)
    /\ call' = [op |-> "html", arg |-> <<>>, fault |-> "none", ret |-> TRUE, raised |-> FALSE,
                saves |-> call.saves, backup |-> "none"]
    /\ UNCHANGED <<schedule, additional_notes, answers_file, notes_file, backups, now, text_schedule, reminders_text, mailvars, gui>>

(***************************************************************************)
(* Inputs.  User texts are every string over Alphabet up to MaxLen and a   *)
(* fixed list of texts that exercise the codec's special cases.            *)
(***************************************************************************)
Alphabet == {"a", "\"", "|", ";", " "}

Generated == UNION {[1..k -> Alphabet] : k \in 0..MaxLen}

Special ==
    { SENTINEL,
      <<"9", "-", "5">>,
      <<"a", "|", "|", "P", "L", "A", "N", "S", "|", "|", "b">>,
      <<"i", "n", "f", "o", "r", "m", "a", "t", "i", "o", "n">>,
      <<"<", "s", "c", "r", "i", "p", "t", ">">>,
      <<"a", "\\", "\"", "b">>,
      <<"a", "\\">>,
      <<"[", "0", "m", "x">>,
      <<"P", "l", "a", "n", " ", "N", "a", "m", "e", ":", "x">>,
      <<"a", "\n", "b">>,
      <<"x", "&", "y", "'", "z">> }

Texts == Generated \cup Special

Gym == [name |-> <<"G", "y", "m">>, details |-> <<"5", "p", "m">>]

\* day records that vary one field over Texts, and plan lists that mix kept and
\* dropped plans
DayInputs ==
    {[study_time |-> t, goals |-> <<"g">>, plans |-> <<Gym>>] : t \in Texts}
    \cup {[study_time |-> <<"9", "-", "5">>, goals |-> t, plans |-> <<Gym>>] : t \in Texts}
    \cup {[study_time |-> <<"9", "-", "5">>, goals |-> <<>>,
           plans |-> <<[name |-> t, details |-> <<"x">>], Gym>>] : t \in Texts}
    \cup {[study_time |-> <<"9", "-", "5">>, goals |-> <<>>,
           plans |-> <<Gym, [name |-> <<"b">>, details |-> t]>>] : t \in Texts}
    \cup {[study_time |-> <<"9", "-", "5">>, goals |-> g,
           plans |-> <<[name |-> n1, details |-> <<"1">>], [name |-> n2, details |-> <<"2">>],
                       [name |-> n3, details |-> <<>>]>>] :
             g \in {<<"g">>, <<"a", "|", "|", "P", "L", "A", "N", "S", "|", "|", "b">>},
             n1 \in {<<>>, <<"a">>, <<";">>}, n2 \in {<<>>, <<"b">>}, n3 \in {<<"c">>, <<"&", "<">>}}

\* the days whose record the codec specification varies
CodecDays == {"Monday", "Wed", "Sun"}

CodecInputs ==
    {[initialize_default_schedule EXCEPT ![d] = x] : d \in CodecDays, x \in DayInputs}

(***************************************************************************)
(* SpecCodec: a first save of any input schedule, and loads.               *)
(***************************************************************************)
SaveFirst ==
    /\ ~answers_file.exists
    /\ \E W \in CodecInputs : save_schedule_data(W, "none", Len(DAYS), TRUE)

Load == \E readable \in BOOLEAN : load_schedule_data(readable)

NextCodec == SaveFirst \/ Load

SpecCodec == Init /\ [][NextCodec]_vars

(***************************************************************************)
(* Record files written by hand or by older versions.  A record is the     *)
(* text between the outer quotes of a day line, as the file holds it (a    *)
(* JSON quote is \" there).                                                *)
(***************************************************************************)
FQ == <<"\\", "\"">>

FStr(t) == FQ \o t \o FQ

FPair(k, v) == FStr(k) \o <<":", " ">> \o v

FObj(pairs) == <<"{">> \o JoinComma(pairs) \o <<"}">>

FList(items) == <<"[">> \o JoinComma(items) \o <<"]">>

KName == <<"n", "a", "m", "e">>

KDetails == <<"d", "e", "t", "a", "i", "l", "s">>

\* JSON segments that decode to a list
ListSegments ==
    { FList(<<>>),
      FList(<<FObj(<<FPair(KName, FStr(<<"a">>)), FPair(KDetails, FStr(<<"b">>))>>)>>),
      FList(<<FObj(<<FPair(KName, FStr(<<"a">>)), FPair(KDetails, FStr(<<"b">>))>>),
              FObj(<<FPair(KDetails, FStr(<<"d">>)), FPair(KName, FStr(<<"c">>))>>)>>),
      FList(<<FObj(<<FPair(KName, FStr(<<";">>)), FPair(KDetails, FStr(<<"b">>))>>),
              FObj(<<FPair(KName, FStr(<<"c">>))>>)>>),
      FList(<<<<"5">>, FObj(<<FPair(KName, <<"n", "u", "l", "l">>), FPair(KDetails, <<"t", "r", "u", "e">>)>>),
              FList(<<>>), FObj(<<FPair(KName, <<"7">>)>>)>>),
      FList(<<FObj(<<FPair(KName, FStr(<<"a">>)), FPair(KName, FStr(<<"c">>))>>)>>),
      FList(<<FObj(<<FPair(KName, FList(<<FStr(<<"x">>), <<"1">>>>)),
                     FPair(KDetails, FObj(<<FPair(<<"k">>, <<"n", "u", "l", "l">>)>>))>>)>>),
      <<" ">> \o FList(<<FObj(<<FPair(KName, FStr(<<"a", "\\", "\\", "\\", "\"", "b">>))>>)>>) \o <<" ">> }

\* JSON segments that are not a list or do not parse
MalformedSegments ==
    { FObj(<<FPair(KName, FStr(<<"a">>))>>),
      FStr(<<"s">>),
      <<"n", "u", "l", "l">>,
      <<"n", "u", "l">>,
      <<"[", "]", " ", "x">>,
      <<"[">> \o FObj(<<FPair(KName, FStr(<<"a">>))>>),
      <<"[">> \o FObj(<<FPair(KName, FStr(<<"a">>))>>) \o <<",", "]">>,
      FList(<<FObj(<<FPair(KName, FStr(<<"a", "\\", "\\", "\\", "\\", "q">>))>>)>>),
      <<"[", "{", "\"", "n", "a", "m", "e">>,
      <<"DEEP">>,
      <<"[", "DEEP", "]">> }

EmptySegments == {<<>>, <<" ">>}

Yes == <<"y", "e", "s">>

\* the legacy segment  f0|f1|...|fn
RECURSIVE JoinPipe(_)
JoinPipe(fields) ==
    IF Len(fields) = 1 THEN fields[1]
    ELSE fields[1] \o <<"|">> \o JoinPipe(Tail(fields))

\* pre-JSON records: study|dg_work|dg_hours|jj_work|jj_hours|goals|notes[|extra]
LegacyRecords ==
    { JoinPipe(<<f0, f1, f2, f3, <<"4", "h">>, f5, f6>> \o extra) :
        f0 \in {<<"9", "-", "5">>},
        f1 \in {Yes, <<"n", "o">>, <<"Y", "e", "s">>},
        f2 \in {<<"3", "h">>, <<" ">>},
        f3 \in {Yes, <<"n", "o">>},
        f5 \in {<<"g", "5">>, <<>>},
        f6 \in {<<>>, <<" ">>, <<"n", "o", "t", "e">>, <<"P", "l", "a", "n", " ", "N", "a", "m", "e", ":">>},
        extra \in {<<>>, <<<<"x">>>>} }

\* study_time|goals segments, some with captured prompt text or colour codes
ShortLegacy ==
    { <<"9", "-", "5">>,
      <<"9", "-", "5", "|", "g">>,
      <<" ", "|", " ", "g", " ">>,
      <<"i", "n", "f", "o", "r", "m", "a", "t", "i", "o", "n", "|", "g">>,
      <<"S", "t", "u", "d", "y", " ", "i", "n", "f", "o", "r", "m", "a", "t", "i", "o", "n", " ", "f", "o", "r", " ", "W", "e", "d", ":", " ", "9", "-", "5", "|", "g">>,
      <<"ESC", "[", "0", ";", "3", "3", "m", "9", "-", "5", "ESC", "[", "0", "m", "|", "[", "0", "m", "g">>,
      <<"9", "-", "5", "|", "a", "\\", "\"", "b", "\\", "\\", "c">>,
      <<"9", "-", "5", "|", "g", "|", "y", "e", "s", "|", "3", "h", "|", "y", "e", "s", "|", "4", "h">>,
      JoinPipe(<<<<"9", "-", "5">>, Yes, <<"3", "h">>, Yes, <<"4", "h">>, <<"g", "5">>, <<"n", "o", "t", "e">>>>) }

Records ==
    LegacyRecords
    \cup ShortLegacy
    \cup {l \o PLAN_SAVE_SEPARATOR \o j : l \in ShortLegacy, j \in ListSegments \cup MalformedSegments \cup EmptySegments}

\* the first day's record in two-day files
FirstRecords ==
    ShortLegacy
    \cup {<<"9", "-", "5", "|", "g">> \o PLAN_SAVE_SEPARATOR \o j :
             j \in ListSegments \cup MalformedSegments \cup EmptySegments}

\* the second day's record in two-day files
OtherRecords ==
    { <<"1", "-", "2", "|", "h">> \o PLAN_SAVE_SEPARATOR \o FList(<<FObj(<<FPair(KName, FStr(<<"z">>)), FPair(KDetails, FStr(<<"w">>))>>)>>),
      <<"1", "-", "2", "|", "h">> \o PLAN_SAVE_SEPARATOR \o <<"DEEP">>,
      <<"1", "-", "2", "|", "h">> \o PLAN_SAVE_SEPARATOR \o <<"[", "{">>,
      JoinPipe(<<<<"1", "-", "2">>, Yes, <<"3", "h">>, Yes, <<"4", "h">>, <<"g", "5">>, <<"n", "o", "t", "e">>>>) }

\* a day line as a hand-written file holds it
RawLine(day, record) == LineKey(day) \o record \o <<"\"", "\n">>

DecodeDays1 == {"Monday", "Wed"}

DecodeFiles ==
    {RawLine(d, r) : d \in DecodeDays1, r \in Records}
    \cup {Preamble \o RawLine(DAYS[i], r) \o RawLine(DAYS[j], o) :
            i \in {1, 3}, j \in {5, 7}, r \in FirstRecords, o \in OtherRecords}
    \cup { <<>>, Preamble, <<"s", "c", "h", "e", "d", "u", "l", "e", "[", "M", "o", "n", "d", "a", "y", "]", "=", "\"", "9", "-", "5">>,
           <<"s", "c", "h", "e", "d", "u", "l", "e", "[", "F", "u", "n", "d", "a", "y", "]", "=", "\"", "9", "-", "5", "\"", "\n">> }

\* someone (an editor, an older version of the program) replaces the record file
ExternalEdit(content) ==
    /\ answers_file' = [exists |-> TRUE, content |-> content]
    /\ call' = [op |-> "edit", arg |-> <<>>, fault |-> "none", ret |-> TRUE, raised |-> FALSE,
                saves |-> call.saves, backup |-> "none"]
    /\ UNCHANGED <<schedule, additional_notes, notes_file, backups, now, html, text_schedule, reminders_text, mailvars, gui>>

(***************************************************************************)
(* SpecDecode: one hand-made record file, and loads.                       *)
(***************************************************************************)
EditOnce == call.op = "init" /\ \E c \in DecodeFiles : ExternalEdit(c)

NextDecode == EditOnce \/ Load

SpecDecode == Init /\ [][NextDecode]_vars

(***************************************************************************)
(* Saves over an existing file, with faults, backups and the clock; notes. *)
(***************************************************************************)
StoreWeek(goals, plans) ==
    [day \in DaySet |->
        IF day = "Monday"
        THEN [study_time |-> <<"9", "-", "5">>, goals |-> goals, plans |-> plans]
        ELSE DefaultDay(day)]

StoreInputs ==
    { StoreWeek(<<"g">>, <<Gym>>),
      StoreWeek(<<"a", "|", "b">>, <<>>) }

NoteInputs == { <<>>, <<"n", "\n", "<", "b", ">">> }

Faults == {"none", "mkdir", "open", "write"}

Save ==
    /\ call.saves < MaxSaves
    /\ \E W \in StoreInputs, fault \in Faults, written \in {0, 1}, backup_ok \in BOOLEAN :
          /\ fault # "write" => written = 0
          /\ ~answers_file.exists => backup_ok
          /\ save_schedule_data(W, fault, written, backup_ok)

SaveNotes ==
    /\ call.saves < MaxSaves
    /\ \E n \in NoteInputs, fault \in Faults, written \in {0, 1} :
          /\ written <= Len(n)
          /\ fault # "write" => written = 0
          /\ save_notes(n, fault, written)

LoadNotes == \E readable \in BOOLEAN : load_notes(readable)

NextStore == Save \/ SaveNotes \/ Load \/ LoadNotes \/ Tick

SpecStore == Init /\ [][NextStore]_vars

(***************************************************************************)
(* SpecHtml: the e-mail document of any schedule and notes the manager     *)
(* can hold (save_schedule_data and save_notes keep their argument as it   *)
(* is given).                                                              *)
(***************************************************************************)
HtmlDay == "Wed"

HtmlInputs ==
    {[initialize_default_schedule EXCEPT ![HtmlDay] = x] : x \in DayInputs}
    \cup {[initialize_default_schedule EXCEPT
             ![HtmlDay] = [study_time |-> <<>>, goals |-> t,
                           plans |-> <<[name |-> <<"<", "b", ">">>, details |-> <<" ">>]>>]] :
           t \in {<<>>, <<"&", "l", "t", ";">>, <<"<", "s", "c", "r", "i", "p", "t", ">">>}}

HtmlNotes ==
    { <<" ">>, <<"n">>, <<" ", "<", "b", ">", "&", "\"", "'", "\n">> }

SetSchedule ==
    /\ call.op \in {"init", "save_notes"} /\ ~answers_file.exists
    /\ \E W \in HtmlInputs : save_schedule_data(W, "none", Len(DAYS), TRUE)

SetNotes ==
    /\ call.op \in {"init", "save"} /\ ~notes_file.exists
    /\ \E n \in HtmlNotes : save_notes(n, "none", 0)

NextHtml == SetSchedule \/ SetNotes \/ generate_html_email

SpecHtml == Init /\ [][NextHtml]_vars

(***************************************************************************)
(* generate_text_schedule: the plain-text schedule, as a sequence of lines.*)
(* A line is a piece as in the e-mail document: "markup" for a fixed line  *)
(* of the layout, "text" for a line that shows a value.                    *)
(***************************************************************************)
LowerLetters ==
    <<"a", "b", "c", "d", "e", "f", "g", "h", "i", "j", "k", "l", "m",
      "n", "o", "p", "q", "r", "s", "t", "u", "v", "w", "x", "y", "z">>

UpperLetters ==
    <<"A", "B", "C", "D", "E", "F", "G", "H", "I", "J", "K", "L", "M",
      "N", "O", "P", "Q", "R", "S", "T", "U", "V", "W", "X", "Y", "Z">>

\* str.upper(), str.lower()
Upper(s) ==
    [i \in 1..Len(s) |->
       IF \E k \in 1..Len(LowerLetters) : LowerLetters[k] = s[i]
       THEN UpperLetters[CHOOSE k \in 1..Len(LowerLetters) : LowerLetters[k] = s[i]]
       ELSE s[i]]

Lower(s) ==
    [i \in 1..Len(s) |->
       IF \E k \in 1..Len(UpperLetters) : UpperLetters[k] = s[i]
       THEN LowerLetters[CHOOSE k \in 1..Len(UpperLetters) : UpperLetters[k] = s[i]]
       ELSE s[i]]

\* f"{value:<width}"
PadRight(value, width) ==
    IF Len(value) >= width THEN value
    ELSE value \o [i \in 1..(width - Len(value)) |-> " "]

\* textwrap.wrap(text, width) for a text that fits in one line (every text of the
\* model is shorter than the widths used, 57 and 60): whitespace characters become
\* spaces, trailing whitespace is dropped, and a line left empty is not emitted
TrailingStripped(s) ==
    With({i \in 1..Len(s) : s[i] # " "},
         LAMBDA keep : IF keep = {} THEN <<>> ELSE SubSeq(s, 1, Max(keep)))

textwrap_wrap(text, width) ==
    With(TrailingStripped([i \in 1..Len(text) |-> IF text[i] \in Whitespace THEN " " ELSE text[i]]),
         LAMBDA line : IF line = <<>> THEN <<>> ELSE <<line>>)

TextLine(field, value) == [kind |-> "text", field |-> field, text |-> value]

Blank == Markup(<<>>)

\* the lines of textwrap.wrap(value, width), each padded to pad
WrappedLines(field, value, width, pad) ==
    With(textwrap_wrap(value, width),
         LAMBDA lines : [i \in 1..Len(lines) |-> TextLine(field, PadRight(lines[i], pad))])

\* the loop 'for i, plan in enumerate(visible_plans):'
RECURSIVE TextPlanLines(_)
TextPlanLines(plans) ==
    IF plans = <<>> THEN <<>>
    ELSE <<TextLine("plan_name", PadRight(Head(plans).name, 59))>>
         \o WrappedLines("plan_details", Head(plans).details, 57, 60)
         \o TextPlanLines(Tail(plans))

\* the 'if not has_content:' branch
TextPlaceholder ==
    <<Blank,
      Markup(<<"N", "o", " ", "s", "c", "h", "e", "d", "u", "l", "e", " ", "s", "e", "t">>),
      Blank>>

TextStudy(study_time) ==
    IF study_time # <<>>
    THEN <<Blank, Markup(<<"S", "T", "U", "D", "Y", " ", "T", "I", "M", "E">>),
           TextLine("study_time", PadRight(study_time, 62))>>
    ELSE <<>>

TextGoals(goals) ==
    IF goals # <<>>
    THEN <<Blank, Markup(<<"G", "O", "A", "L", "S">>)>> \o WrappedLines("goals", goals, 60, 62)
    ELSE <<>>

TextPlans(visible) ==
    IF visible # <<>>
    THEN <<Blank, Markup(<<"P", "L", "A", "N", "S", " ", "&", " ", "A", "C", "T", "I", "V", "I", "T", "I", "E", "S">>)>>
         \o TextPlanLines(visible)
         \o (IF Len(visible) > 1 THEN <<Blank>> ELSE <<>>)
    ELSE <<>>

\* one pass of 'for day_index, day in enumerate(DAYS):'
TextDay(day, day_data) ==
    <<Markup(<<"[">> \o Upper(DayChars(day)) \o <<"]">>)>>
    \o (IF day_data.study_time = <<>> /\ day_data.goals = <<>> /\ visible_plans(day_data.plans) = <<>>
        THEN TextPlaceholder
        ELSE TextStudy(day_data.study_time)
             \o TextGoals(day_data.goals)
             \o TextPlans(visible_plans(day_data.plans))
             \o (IF day_data.goals = <<>> /\ visible_plans(day_data.plans) = <<>>
                    /\ day_data.study_time # <<>>
                 THEN <<Blank>> ELSE <<>>))

\* int(digits) of a run of decimal digits, and str(n) of a natural number
DigitValue(c) == CHOOSE v \in 0..9 : Digits10[v + 1] = c

RECURSIVE PyInt(_)
PyInt(digits) ==
    IF digits = <<>> THEN 0
    ELSE 10 * PyInt(SubSeq(digits, 1, Len(digits) - 1)) + DigitValue(digits[Len(digits)])

RECURSIVE PyStrNat(_)
PyStrNat(n) ==
    IF n < 10 THEN <<Digits10[n + 1]>> ELSE PyStrNat(n \div 10) \o <<Digits10[(n % 10) + 1]>>

\* re.match(r'(\d+):(\d+)-(\d+):(\d+)', study_time): the four groups of a match at
\* the start of the text; \d+ is greedy and each run must be followed by its
\* separator, so the groups are the maximal digit runs
TimeGroup(s, from, sep) ==
    With(DigitsEnd(s, from),
         LAMBDA e : [ok |-> e > from /\ (sep = "" \/ (e <= Len(s) /\ s[e] = sep)),
                     digits |-> SubSeq(s, from, e - 1),
                     next |-> e + 1])

NoTimeMatch == [ok |-> FALSE, start_hour |-> 0, start_min |-> 0, end_hour |-> 0, end_min |-> 0]

time_match(study_time) ==
    With(TimeGroup(study_time, 1, ":"), LAMBDA g1 :
      IF ~g1.ok THEN NoTimeMatch
      ELSE With(TimeGroup(study_time, g1.next, "-"), LAMBDA g2 :
        IF ~g2.ok THEN NoTimeMatch
        ELSE With(TimeGroup(study_time, g2.next, ":"), LAMBDA g3 :
          IF ~g3.ok THEN NoTimeMatch
          ELSE With(TimeGroup(study_time, g3.next, ""), LAMBDA g4 :
            IF ~g4.ok THEN NoTimeMatch
            ELSE [ok |-> TRUE, start_hour |-> PyInt(g1.digits), start_min |-> PyInt(g2.digits),
                  end_hour |-> PyInt(g3.digits), end_min |-> PyInt(g4.digits)]))))

\* 'if end_hour < start_hour: end_hour += 12', with <= for <
EndHourRollsOnEqual(m) == IF m.end_hour <= m.start_hour THEN m.end_hour + 12 ELSE m.end_hour

\* 'if end_hour < start_hour: end_hour += 12'
EndHour(m) == IF m.end_hour < m.start_hour THEN m.end_hour + 12 ELSE m.end_hour

\* hours = (end_hour + end_min/60) - (start_hour + start_min/60), in minutes; 0 for
\* a study_time that is empty or does not match
StudyMinutes(study_time) ==
    With(time_match(study_time),
         LAMBDA m : IF study_time = <<>> \/ ~m.ok THEN 0
                    ELSE (EndHour(m) * 60 + m.end_min) - (m.start_hour * 60 + m.start_min))

RECURSIVE SumOver(_, _)
SumOver(f, n) == IF n = 0 THEN 0 ELSE SumOver(f, n - 1) + f[n]

total_study_minutes(schedule_data) ==
    SumOver([i \in 1..Len(DAYS) |-> StudyMinutes(GetDay(schedule_data, DAYS[i]).study_time)], Len(DAYS))

\* total_plans += len(plans)
total_plans_unfiltered(schedule_data) ==
    SumOver([i \in 1..Len(DAYS) |-> Len(GetDay(schedule_data, DAYS[i]).plans)], Len(DAYS))

total_plans(schedule_data) ==
    SumOver([i \in 1..Len(DAYS) |-> Len(visible_plans(GetDay(schedule_data, DAYS[i]).plans))], Len(DAYS))

days_with_goals(schedule_data) ==
    Cardinality({d \in DaySet : GetDay(schedule_data, d).goals # <<>>})

\* f"{hours:.1f}" of a number of minutes: the nearest tenth of an hour, a tie going
\* to the even tenth (the minutes of the model are multiples of 15, whose hours are
\* exact in binary floating point, so ties are exact)
Tenths(minutes) ==
    IF minutes % 6 < 3 THEN minutes \div 6
    ELSE IF minutes % 6 > 3 THEN minutes \div 6 + 1
    ELSE IF (minutes \div 6) % 2 = 0 THEN minutes \div 6 ELSE minutes \div 6 + 1

FormatTenths(t) == PyStrNat(t \div 10) \o <<".">> \o PyStrNat(t % 10)

Format1f(minutes) ==
    IF minutes < 0 THEN <<"-">> \o FormatTenths(Tenths(0 - minutes)) ELSE FormatTenths(Tenths(minutes))

\* the summary lines
TextSummary(schedule_data) ==
    <<Markup(<<"W", "E", "E", "K", " ", "S", "U", "M", "M", "A", "R", "Y">>),
      TextLine("total_study_hours", Format1f(total_study_minutes(schedule_data))),
      TextLine("total_plans", PyStrNat(total_plans(schedule_data))),
      TextLine("days_with_goals", PyStrNat(days_with_goals(schedule_data)) \o <<"/", "7">>)>>

\* the lines of the text schedule
TextContent(schedule_data) ==
    <<Markup(<<"W", "E", "E", "K", "L", "Y", " ", "S", "C", "H", "E", "D", "U", "L", "E">>),
      Markup(CURRENT_DATE)>>
    \o Concat([i \in 1..Len(DAYS) |-> TextDay(DAYS[i], GetDay(schedule_data, DAYS[i]))])
    \o TextSummary(schedule_data)
    \o <<Markup(CURRENT_DATE)>>

\* generate_text_schedule() on the manager's schedule
generate_text_schedule ==
    /\ text_schedule' = TextContent(schedule)
    /\ call' = [op |-> "text", arg |-> <<>>, fault |-> "none", ret |-> TRUE, raised |-> FALSE,
                saves |-> call.saves, backup |-> "none"]
    /\ UNCHANGED <<schedule, additional_notes, answers_file, notes_file, backups, now, html, reminders_text, mailvars, gui>>

(***************************************************************************)
(* SpecText: the text schedule and the e-mail document of one schedule.    *)
(* The schedule is set first (save_schedule_data keeps its argument as it  *)
(* is given), then rendered.                                               *)
(***************************************************************************)
EmptyWeek == [d \in DaySet |-> [study_time |-> <<>>, goals |-> <<>>, plans |-> <<>>]]

StudyTimes ==
    { <<>>,
      <<"1", "1", ":", "0", "0", "-", "3", ":", "0", "0">>,
      <<"9", ":", "1", "5", "-", "9", ":", "3", "0">>,
      <<"3", ":", "3", "0", "-", "3", ":", "0", "0">>,
      <<"1", "3", ":", "0", "0", "-", "2", ":", "0", "0">>,
      <<"9", ":", "0", "0", "-", "9", ":", "0", "0">>,
      <<"1", "0", ":", "4", "5", "-", "9", ":", "3", "0">>,
      <<"0", "9", ":", "0", "0", "-", "1", "7", ":", "0", "0">>,
      <<"9", ":", "0", "0", "-", "5", ":", "0", "0", "p", "m">>,
      <<" ", "9", ":", "0", "0", "-", "5", ":", "0", "0">>,
      <<"9", "-", "5">> }

ShortStudyTimes ==
    { <<>>, <<"9", ":", "0", "0", "-", "9", ":", "1", "5">>, <<"9", ":", "0", "0", "-", "9", ":", "4", "5">> }

TextPlanLists ==
    { <<>>,
      <<[name |-> <<"a">>, details |-> <<>>]>>,
      <<[name |-> <<"a">>, details |-> <<" ">>]>>,
      <<[name |-> <<"a">>, details |-> <<"x">>]>>,
      <<[name |-> <<"a">>, details |-> <<>>], [name |-> <<"b">>, details |-> <<"y", " ">>],
        [name |-> <<"c">>, details |-> <<"z">>]>> }

TextDayForms ==
    {[study_time |-> s, goals |-> g, plans |-> p] :
        s \in {<<>>, <<"9", "-", "5">>}, g \in {<<>>, <<"g">>, <<" ">>}, p \in TextPlanLists}

\* weeks with plans and goals on two days
TextTwoDays ==
    {[EmptyWeek EXCEPT !["Tues"] = [study_time |-> <<>>, goals |-> g, plans |-> p],
                       !["Sat"] = [study_time |-> <<>>, goals |-> h, plans |-> q]] :
        g \in {<<>>, <<" ">>}, h \in {<<>>, <<"g">>}, p \in TextPlanLists, q \in TextPlanLists}

TextInputs ==
    {[W EXCEPT !["Monday"].study_time = m, !["Wed"].study_time = w, !["Sun"].study_time = s] :
        W \in {EmptyWeek, initialize_default_schedule},
        m \in StudyTimes, w \in ShortStudyTimes, s \in StudyTimes}
    \cup {[W EXCEPT !["Tues"] = x] : W \in {EmptyWeek, initialize_default_schedule}, x \in TextDayForms}
    \cup TextTwoDays

SetTextSchedule ==
    /\ call.op = "init"
    /\ \E W \in TextInputs : save_schedule_data(W, "none", Len(DAYS), TRUE)

NextText == SetTextSchedule \/ generate_text_schedule \/ generate_html_email

SpecText == Init /\ [][NextText]_vars

(***************************************************************************)
(* generate_reminders: the reminders view, as a sequence of lines          *)
(* [kind, field, day, name, text]; a plan line carries its category in     *)
(* field.                                                                  *)
(***************************************************************************)

WorkWords ==
    { <<"w", "o", "r", "k">>,
      <<"d", "o", "l", "l", "a", "r", " ", "g", "e", "n", "e", "r", "a", "l">>,
      <<"j", "j">> }


AppointmentWords ==
    { <<"a", "p", "p", "o", "i", "n", "t", "m", "e", "n", "t">>,
      <<"a", "p", "p", "t">>,
      <<"m", "e", "e", "t", "i", "n", "g">> }


EatWords ==
    { <<"e", "a", "t">>,
      <<"m", "e", "a", "l">>,
      <<"l", "u", "n", "c", "h">>,
      <<"d", "i", "n", "n", "e", "r">> }


SleepingWords ==
    { <<"s", "l", "e", "e", "p">>,
      <<"n", "i", "g", "h", "t">>,
      <<"b", "e", "d", "t", "i", "m", "e">>,
      <<"n", "a", "p">>,
      <<"r", "e", "s", "t">> }


PrayWords ==
    { <<"p", "r", "a", "y">>,
      <<"w", "o", "r", "s", "h", "i", "p">>,
      <<"r", "o", "s", "a", "r", "y">>,
      <<"m", "e", "d", "i", "t", "a", "t", "i", "o", "n">> }


BreakWords ==
    { <<"b", "r", "e", "a", "k">>,
      <<"r", "e", "l", "a", "x">>,
      <<"c", "h", "i", "l", "l">> }


StudyWords ==
    { <<"s", "t", "u", "d", "y">>,
      <<"h", "o", "m", "e", "w", "o", "r", "k">>,
      <<"a", "s", "s", "i", "g", "n", "m", "e", "n", "t">>,
      <<"r", "e", "v", "i", "s", "i", "o", "n">>,
      <<"r", "e", "s", "e", "a", "r", "c", "h">> }


PlayWords ==
    { <<"p", "l", "a", "y">>,
      <<"g", "a", "m", "e">>,
      <<"g", "a", "m", "i", "n", "g">>,
      <<"f", "u", "n">>,
      <<"o", "u", "t", "s", "i", "d", "e">> }


YoutubeWords ==
    { <<"y", "o", "u", "t", "u", "b", "e">>,
      <<"v", "i", "d", "e", "o">>,
      <<"w", "a", "t", "c", "h">> }

\* 'kw in plan_name or ...' for the keywords of one branch
AnyIn(words, plan_name) == \E w \in words : Contains(plan_name, w)

\* the if/elif chain over plan.get('name', '').lower(), with the 'study' branch
\* tested before the 'work' branch
CategoryStudyFirst(name) ==
    IF AnyIn(StudyWords, Lower(name)) THEN "study"
    ELSE IF AnyIn(WorkWords, Lower(name)) THEN "work"
    ELSE IF AnyIn(AppointmentWords, Lower(name)) THEN "appointment"
    ELSE IF AnyIn(EatWords, Lower(name)) THEN "eating"
    ELSE IF AnyIn(SleepingWords, Lower(name)) THEN "sleeping"
    ELSE IF AnyIn(PrayWords, Lower(name)) THEN "praying"
    ELSE IF AnyIn(BreakWords, Lower(name)) THEN "break"
    ELSE IF AnyIn(PlayWords, Lower(name)) THEN "play"
    ELSE IF AnyIn(YoutubeWords, Lower(name)) THEN "youtube"
    ELSE "other"

\* the if/elif chain over plan.get('name', '').lower()
Category(name) ==
    IF AnyIn(WorkWords, Lower(name)) THEN "work"
    ELSE IF AnyIn(AppointmentWords, Lower(name)) THEN "appointment"
    ELSE IF AnyIn(EatWords, Lower(name)) THEN "eating"
    ELSE IF AnyIn(SleepingWords, Lower(name)) THEN "sleeping"
    ELSE IF AnyIn(PrayWords, Lower(name)) THEN "praying"
    ELSE IF AnyIn(BreakWords, Lower(name)) THEN "break"
    ELSE IF AnyIn(StudyWords, Lower(name)) THEN "study"
    ELSE IF AnyIn(PlayWords, Lower(name)) THEN "play"
    ELSE IF AnyIn(YoutubeWords, Lower(name)) THEN "youtube"
    ELSE "other"

\* the order in which the sub-blocks are displayed
DisplayOrder ==
    <<"work", "appointment", "eating", "youtube", "sleeping", "praying", "break", "study", "play",
      "other">>

ReminderMarkup(label) == [kind |-> "markup", field |-> "", day |-> <<>>, name |-> <<>>, text |-> label]

\* value[:n]
Take(value, n) == SubSeq(value, 1, IF Len(value) < n THEN Len(value) ELSE n)

\* all_goals: the (day, goals) pairs of the days with goals, in day order
RECURSIVE all_goals(_, _)
all_goals(schedule_data, i) ==
    IF i > Len(DAYS) THEN <<>>
    ELSE (IF GetDay(schedule_data, DAYS[i]).goals # <<>>
          THEN <<[day |-> DAYS[i], goal |-> GetDay(schedule_data, DAYS[i]).goals]>>
          ELSE <<>>)
         \o all_goals(schedule_data, i + 1)

\* all_plans: the (day, plan) pairs of the plans with details, in day and plan order
RECURSIVE all_plans(_, _)
all_plans(schedule_data, i) ==
    IF i > Len(DAYS) THEN <<>>
    ELSE With(visible_plans(GetDay(schedule_data, DAYS[i]).plans),
              LAMBDA vis : [k \in 1..Len(vis) |-> [day |-> DAYS[i], plan |-> vis[k]]])
         \o all_plans(schedule_data, i + 1)

\* the lines of one goal: the first 54 characters, then the rest wrapped
GoalLines(pair) ==
    <<[kind |-> "text", field |-> "goal", day |-> PadRight(DayChars(pair.day), 12), name |-> <<>>,
       text |-> PadRight(Take(pair.goal, 54), 54)]>>
    \o (IF Len(pair.goal) > 54
        THEN With(textwrap_wrap(SubSeq(pair.goal, 55, Len(pair.goal)), 54),
                  LAMBDA lines :
                    [k \in 1..Len(lines) |->
                       [kind |-> "text", field |-> "goal", day |-> PadRight(<<>>, 12), name |-> <<>>,
                        text |-> PadRight(lines[k], 54)]])
        ELSE <<>>)
    \o <<ReminderMarkup(<<>>)>>

GoalsBlock(goals) ==
    IF goals = <<>> THEN <<>>
    ELSE <<ReminderMarkup(<<"W", "E", "E", "K", "L", "Y", " ", "G", "O", "A", "L", "S">>)>>
         \o Concat([k \in 1..Len(goals) |-> GoalLines(goals[k])])

\* f"{day:<10} {name:<25} {details[:23]:<23}"
PlanLine(category, pair) ==
    [kind |-> "text", field |-> category, day |-> PadRight(DayChars(pair.day), 10),
     name |-> PadRight(pair.plan.name, 25), text |-> PadRight(Take(pair.plan.details, 23), 23)]

\* one sub-block: the pairs that the chain put in the category
CategoryBlock(category, plans) ==
    With(SelectSeq(plans, LAMBDA pair : Category(pair.plan.name) = category),
         LAMBDA mine :
           IF mine = <<>> THEN <<>>
           ELSE <<ReminderMarkup(<<category>>)>>
                \o [k \in 1..Len(mine) |-> PlanLine(category, mine[k])]
                \o <<ReminderMarkup(<<>>)>>)

PlansBlock(plans) ==
    IF plans = <<>> THEN <<>>
    ELSE <<ReminderMarkup(<<"P", "L", "A", "N", "S">>)>>
         \o Concat([k \in 1..Len(DisplayOrder) |-> CategoryBlock(DisplayOrder[k], plans)])

\* the lines of the reminders view
RemindersContent(schedule_data) ==
    <<ReminderMarkup(<<"R", "E", "M", "I", "N", "D", "E", "R", "S">>), ReminderMarkup(CURRENT_DATE)>>
    \o (IF all_goals(schedule_data, 1) = <<>> /\ all_plans(schedule_data, 1) = <<>>
        THEN <<ReminderMarkup(<<"N", "o", " ", "s", "p", "e", "c", "i", "f", "i", "c", " ", "g", "o", "a",
                               "l", "s", " ", "o", "r", " ", "p", "l", "a", "n", "s">>)>>
        ELSE GoalsBlock(all_goals(schedule_data, 1)) \o PlansBlock(all_plans(schedule_data, 1)))
    \o <<ReminderMarkup(<<>>)>>

\* generate_reminders() on the manager's schedule
generate_reminders ==
    /\ reminders_text' = RemindersContent(schedule)
    /\ call' = [op |-> "reminders", arg |-> <<>>, fault |-> "none", ret |-> TRUE, raised |-> FALSE,
                saves |-> call.saves, backup |-> "none"]
    /\ UNCHANGED <<schedule, additional_notes, answers_file, notes_file, backups, now, html,
                   text_schedule, mailvars, gui>>

(***************************************************************************)
(* SpecReminders: the reminders view of one schedule.                      *)
(***************************************************************************)
ReminderNames ==
    { <<"W", "o", "r", "k">>,
      <<"h", "o", "m", "e", "w", "o", "r", "k">>,
      <<"J", "J", " ", "P", "i", "z", "z", "a">>,
      <<"D", "o", "l", "l", "a", "r", " ", "G", "e", "n", "e", "r", "a", "l">>,
      <<"l", "u", "n", "c", "h", " ", "m", "e", "e", "t", "i", "n", "g">>,
      <<"B", "r", "e", "a", "k", "f", "a", "s", "t">>,
      <<"n", "a", "p">>,
      <<"r", "e", "s", "t", "a", "u", "r", "a", "n", "t">>,
      <<"G", "r", "e", "a", "t">>,
      <<"w", "a", "t", "c", "h", " ", "g", "a", "m", "e">>,
      <<"Y", "o", "u", "T", "u", "b", "e">>,
      <<"P", "r", "a", "y">>,
      <<"G", "y", "m">>,
      <<>>,
      <<"S", "t", "u", "d", "y">>,
      <<"r", "e", "l", "a", "x">> }

ReminderDetails ==
    { <<>>, <<" ">>, <<"5", "p", "m">>,
      <<"a", "b", "c", "d", "e", "f", "g", "h", "i", "j", "k", "l", "m", "n", "o", "p", "q", "r", "s", "t", "u", "v", "w", "x", "y">> }

ReminderPlanLists ==
    {<<[name |-> n, details |-> d]>> : n \in ReminderNames, d \in ReminderDetails}
    \cup {<<[name |-> n1, details |-> <<"1">>], [name |-> n2, details |-> d],
             [name |-> n1, details |-> <<"1">>]>> :
            n1 \in {<<"h", "o", "m", "e", "w", "o", "r", "k">>, <<"G", "y", "m">>}, n2 \in {<<"S", "t", "u", "d", "y">>, <<"w", "a", "t", "c", "h", " ", "g", "a", "m", "e">>}, d \in {<<>>, <<"2">>}}
    \cup {<<>>}

ReminderInputs ==
    {[EmptyWeek EXCEPT !["Monday"].plans = m, !["Monday"].goals = g, !["Sun"].plans = s] :
        m \in ReminderPlanLists, g \in {<<>>, <<"g">>},
        s \in {<<>>, <<[name |-> <<"W", "o", "r", "k">>, details |-> <<"9">>]>>, <<[name |-> <<"p", "l", "a", "y">>, details |-> <<"8">>]>>}}

SetRemindersSchedule ==
    /\ call.op = "init"
    /\ \E W \in ReminderInputs : save_schedule_data(W, "none", Len(DAYS), TRUE)

NextReminders == SetRemindersSchedule \/ generate_reminders

SpecReminders == Init /\ [][NextReminders]_vars

(***************************************************************************)
(* SpecNotes: notes saved and loaded beside the schedule.                  *)
(***************************************************************************)
NoteTexts == NoteInputs \cup { <<"a", "\r", "b">>, <<"a", "\r", "\n">> }

SaveNoteText ==
    /\ call.saves < MaxSaves
    /\ \E n \in NoteTexts, fault \in {"none", "open"} : save_notes(n, fault, 0)

SaveBesideNotes ==
    /\ call.saves < MaxSaves
    /\ \E W \in StoreInputs : save_schedule_data(W, "none", Len(DAYS), TRUE)

NextNotes == SaveNoteText \/ SaveBesideNotes \/ Load \/ LoadNotes

SpecNotes == Init /\ [][NextNotes]_vars

(***************************************************************************)
(* utils.py: is_valid_email.  re.match anchors the pattern at the start of *)
(* the string; '$' matches at the end of the string and also just before a *)
(* newline that ends the string.                                           *)
(***************************************************************************)
EmailLetters ==
    {LowerLetters[i] : i \in 1..Len(LowerLetters)} \cup {UpperLetters[i] : i \in 1..Len(UpperLetters)}

\* [a-zA-Z0-9._%+-]
EmailLocalChars == EmailLetters \cup Digits \cup {".", "_", "%", "+", "-"}

\* [a-zA-Z0-9.-]
EmailDomainChars == EmailLetters \cup Digits \cup {".", "-"}

\* [cls]+ matches exactly s[a..b]
RunOf(s, a, b, cls) == a <= b /\ \A k \in a..b : s[k] \in cls

\* '$' after the n-th character
AtDollar(s, n) == n = Len(s) \/ (n = Len(s) - 1 /\ s[Len(s)] = "\n")

\* the local part ends at the first '@', which its class does not hold; the
\* final label starts after a dot and runs to the '$'
EmailMatch(s) ==
    \E at \in 2..Len(s) :
        /\ s[at] = "@"
        /\ RunOf(s, 1, at - 1, EmailLocalChars)
        /\ \E dot \in (at + 2)..Len(s) :
              /\ s[dot] = "."
              /\ RunOf(s, at + 1, dot - 1, EmailDomainChars)
              /\ \E n \in (dot + 2)..Len(s) :
                    /\ AtDollar(s, n)
                    /\ RunOf(s, dot + 1, n, EmailLetters)

is_valid_email(email) == IF email = <<>> THEN FALSE ELSE EmailMatch(email)

(***************************************************************************)
(* The functions of utils.py called on their own.                          *)
(***************************************************************************)
SanitizeAlphabet == {"a", ";", "\\", "NUL", "|", "\""}

SanitizeInputs ==
    UNION {[1..k -> SanitizeAlphabet] : k \in 0..(MaxLen + 1)}
    \cup Texts
    \cup { <<"D", "I", "E", ";", "E", "E", "E", "E">>,
           <<"DEL">> \o SENTINEL \o <<"$">>,
           <<"&", "<", ">", "$", "BACKTICK", "\t", "\n", "\r", "\f", "ESC", "DEL", "k">>,
           <<"a", "\"", "b", "|", "c", "'", "(", ")", "!", "#", "%", "*", "~", " ">> }

CallSanitize ==
    \E x \in SanitizeInputs :
        /\ call' = [NoCall EXCEPT !.op = "sanitize_input", !.arg = <<x>>, !.ret = sanitize_input(x)]
        /\ UNCHANGED <<schedule, additional_notes, answers_file, notes_file, backups, now, html,
                       text_schedule, reminders_text, mailvars, gui>>

\* sanitize_input(sanitize_input(x)): the second call on the value the first returned
CallSanitizeAgain ==
    /\ call.op = "sanitize_input"
    /\ call' = [NoCall EXCEPT !.op = "sanitize_again", !.arg = <<call.arg[1], call.ret>>,
                              !.ret = sanitize_input(call.ret)]
    /\ UNCHANGED <<schedule, additional_notes, answers_file, notes_file, backups, now, html,
                   text_schedule, reminders_text, mailvars, gui>>

EmailAlphabet == {"a", "@", ".", "\n"}

EmailInputs ==
    UNION {[1..k -> EmailAlphabet] : k \in 0..(MaxLen + 1)}
    \cup { <<"a", "@", "b", ".", "c", "o">>,
           <<"a", ".", "b", "+", "c", "@", "s", "u", "b", ".", "d", "o", "m", "a", "i", "n", ".", "o", "r", "g">>,
           <<"a", "@", "b">>,
           <<"a", "@", "b", ".", "c">>,
           <<"a", "@", "b", ".", "c", "0">>,
           <<" ", "a", "@", "b", ".", "c", "o">>,
           <<"a", "@", "b", ".", "c", "o", " ">>,
           <<"a", "@", "b", ".", "c", "o", "\n">>,
           <<"a", "@", "b", ".", "c", "o", "\n", "\n">>,
           <<"\n", "a", "@", "b", ".", "c", "o">>,
           <<"a", "@", "b", "@", "c", ".", "c", "o">>,
           <<"a", "@", ".", "c", "o">>,
           <<"@", "b", ".", "c", "o">>,
           <<"A", "%", "_", "-", "9", "@", "B", "-", "9", ".", "C", "O">>,
           <<"a", "@", "b", ".", "c", "o", ".", "u", "k">> }

CallIsValidEmail ==
    \E s \in EmailInputs :
        /\ call' = [NoCall EXCEPT !.op = "is_valid_email", !.arg = <<s>>, !.ret = is_valid_email(s)]
        /\ UNCHANGED <<schedule, additional_notes, answers_file, notes_file, backups, now, html,
                       text_schedule, reminders_text, mailvars, gui>>

NextUtils == CallSanitize \/ CallSanitizeAgain \/ CallIsValidEmail

SpecUtils == Init /\ [][NextUtils]_vars

(***************************************************************************)
(* Credentials, keyring and mail.  A text is a sequence of characters;     *)
(* None is <<"None">>, which no text equals.  The credentials file is the  *)
(* [Email] section configparser wrote, or a file configparser cannot read. *)
(***************************************************************************)
MaxSends == 1

\* a or b
Or(a, b) == IF a # <<>> THEN a ELSE b

Gmail == <<"s", "m", "t", "p", ".", "g", "m", "a", "i", "l", ".", "c", "o", "m">>

\* keyring.get_password, set_password, delete_password on the stored passwords
KeyringGet(kr, user) == IF user \in DOMAIN kr THEN kr[user] ELSE <<>>

KeyringSet(kr, user, password) ==
    [u \in DOMAIN kr \cup {user} |-> IF u = user THEN password ELSE kr[u]]

KeyringDelete(kr, user) == [u \in DOMAIN kr \ {user} |-> kr[u]]

\* int(s) succeeds
IsInt(s) == s # <<>> /\ \A i \in 1..Len(s) : s[i] \in Digits

\* load_credentials: the five settings read from the file
CredsFromFile(creds, file) ==
    IF ~file.exists \/ file.kind = "empty" THEN creds
    ELSE IF file.kind = "garbled"
    THEN [creds EXCEPT !.email_from = <<>>, !.smtp_server = Gmail, !.smtp_port = 587,
                       !.smtp_user = <<>>]
    ELSE [creds EXCEPT !.email_to = file.content.email_to,
                       !.email_from = file.content.email_from,
                       !.smtp_server = file.content.smtp_server,
                       !.smtp_port = PyInt(file.content.smtp_port),
                       !.smtp_user = file.content.smtp_user]

password_found_in_keyring(creds, kr, kfault) ==
    creds.smtp_user # <<>> /\ kfault = "none" /\ KeyringGet(kr, creds.smtp_user) # <<>>

should_prompt(prompt_if_missing, creds, kr, kfault) ==
    /\ prompt_if_missing
    /\ \/ creds.email_from = <<>>
       \/ creds.smtp_user = <<>>
       \/ creds.smtp_server = <<>>
       \/ ~password_found_in_keyring(creds, kr, kfault)

\* save_credentials: the options it writes
NonSensitiveCreds(creds) ==
    [email_to |-> creds.email_to, email_from |-> creds.email_from,
     smtp_server |-> creds.smtp_server, smtp_port |-> PyStrNat(creds.smtp_port),
     smtp_user |-> creds.smtp_user]

\* config['Email'] = ... raises ValueError on a value with a lone '%'
SaveCredentialsRaises(creds) ==
    \E k \in DOMAIN NonSensitiveCreds(creds) :
        \E i \in 1..Len(NonSensitiveCreds(creds)[k]) : NonSensitiveCreds(creds)[k][i] = "%"

FileAfterSave(file, creds, fault) ==
    IF SaveCredentialsRaises(creds) \/ fault # "none" THEN file
    ELSE [exists |-> TRUE, kind |-> "written", content |-> NonSensitiveCreds(creds)]

SaveCredentialsReturns(creds, fault) == ~SaveCredentialsRaises(creds) /\ fault = "none"

\* the prompt loops of _prompt_credentials_cli: an entry per question asked
ToAttempt(entries, current, i) == Or(entries[i], current)

FromAttempt(entries, current, i) == IF i = 1 THEN Or(entries[1], current) ELSE entries[i]

CliEmailTo(entries, current) ==
    ToAttempt(entries, current,
              Min({i \in 1..Len(entries) : is_valid_email(ToAttempt(entries, current, i))}))

CliEmailFrom(entries, current) ==
    FromAttempt(entries, current,
                Min({i \in 1..Len(entries) : is_valid_email(FromAttempt(entries, current, i))}))

\* both loops end within the entries given
CliAnswered(creds, in) ==
    /\ \E i \in 1..Len(in.to) : is_valid_email(ToAttempt(in.to, creds.email_to, i))
    /\ \E i \in 1..Len(in.from) : is_valid_email(FromAttempt(in.from, creds.email_from, i))

CliPort(entry, current) ==
    IF IsInt(Or(entry, PyStrNat(current))) THEN PyInt(Or(entry, PyStrNat(current))) ELSE current

CliCredentials(creds, in) ==
    IF CliEmailFrom(in.from, creds.email_from) = <<>>
    THEN [creds EXCEPT !.email_to = CliEmailTo(in.to, creds.email_to),
                       !.email_from = <<>>, !.smtp_server = <<>>, !.smtp_port = 587,
                       !.smtp_user = <<>>, !.smtp_pass = None]
    ELSE [creds EXCEPT !.email_to = CliEmailTo(in.to, creds.email_to),
                       !.email_from = CliEmailFrom(in.from, creds.email_from),
                       !.smtp_server = Or(in.server, creds.smtp_server),
                       !.smtp_port = CliPort(in.port, creds.smtp_port),
                       !.smtp_user = Or(in.user, Or(creds.smtp_user,
                                                    CliEmailFrom(in.from, creds.email_from)))]

password_exists_for_user(kr, user, kfault) == kfault = "none" /\ KeyringGet(kr, user) # <<>>

\* the keyring after the password questions; entered is the new credentials
CliKeyring(kr, current_smtp_user, entered, in) ==
    IF entered.email_from = <<>> THEN kr
    ELSE IF password_exists_for_user(kr, entered.smtp_user, in.kfault) /\ ~in.update THEN kr
    ELSE IF in.password # <<>>
    THEN (IF in.kfault = "none" THEN KeyringSet(kr, entered.smtp_user, in.password) ELSE kr)
    ELSE IF password_exists_for_user(kr, entered.smtp_user, in.kfault) THEN kr
    ELSE IF entered.smtp_user # current_smtp_user /\ current_smtp_user # <<>> /\ in.kfault = "none"
    THEN KeyringDelete(kr, current_smtp_user)
    ELSE kr

\* _prompt_credentials_cli() started on the credentials creds; the caller
\* assigns smtp_pass = last when the prompt returns
PromptCli(creds, in, last) ==
    /\ CliAnswered(creds, in)
    /\ \E entered \in {CliCredentials(creds, in)} :
          \* "Update it?" is asked only when a password is stored for the user
          /\ in.update => password_exists_for_user(keyring, entered.smtp_user, in.kfault)
          /\ credentials' = IF SaveCredentialsRaises(entered) THEN entered
                            ELSE [entered EXCEPT !.smtp_pass = last]
          /\ keyring' = CliKeyring(keyring, creds.smtp_user, entered, in)
          /\ credentials_file' = FileAfterSave(credentials_file, entered, in.fault)
          /\ call' = [NoCall EXCEPT !.op = "prompt_cli", !.arg = <<"prompted">>,
                                    !.raised = SaveCredentialsRaises(entered)]

\* load_credentials(prompt_if_missing), at the command line
load_credentials(prompt_if_missing, kfault, in) ==
    /\ \E loaded \in {CredsFromFile(credentials, credentials_file)} :
          IF should_prompt(prompt_if_missing, loaded, keyring, kfault)
          THEN /\ (in.kfault = "none") = (kfault = "none")
               /\ PromptCli(loaded, in, None)
          ELSE /\ credentials' = [loaded EXCEPT !.smtp_pass = None]
               /\ call' = [NoCall EXCEPT !.op = "load_credentials", !.arg = <<"loaded">>]
               /\ UNCHANGED <<keyring, credentials_file>>
    /\ UNCHANGED <<docvars, gui, generated, outbox>>

_prompt_credentials_cli(in) ==
    /\ PromptCli(credentials, in, credentials.smtp_pass)
    /\ UNCHANGED <<docvars, gui, generated, outbox>>

\* save_and_close of _prompt_credentials_gui: the Save button
GuiRejected(g) ==
    \/ ~is_valid_email(g.to)
    \/ g.from = <<>>
    \/ ~is_valid_email(g.from)
    \/ g.server = <<>>
    \/ g.user = <<>>
    \/ (g.port # <<>> /\ ~IsInt(g.port))

GuiCredentials(creds, g) ==
    [creds EXCEPT !.email_to = g.to, !.email_from = g.from, !.smtp_server = g.server,
                  !.smtp_port = IF g.port = <<>> THEN 587 ELSE PyInt(g.port),
                  !.smtp_user = g.user]

\* keyring.set_password failed: the handler returns before save_credentials
GuiKeyringFails(g) == g.password # <<>> /\ g.kfault # "none"

GuiKeyring(kr, original_smtp_user, g) ==
    IF g.password # <<>>
    THEN (IF g.kfault = "none" THEN KeyringSet(kr, g.user, g.password) ELSE kr)
    ELSE IF password_exists_for_user(kr, g.user, g.kfault) THEN kr
    ELSE IF g.user # original_smtp_user /\ original_smtp_user # <<>> /\ g.kfault = "none"
    THEN KeyringDelete(kr, original_smtp_user)
    ELSE kr

save_and_close(g) ==
    /\ IF GuiRejected(g)
       THEN /\ g.kfault = "none" /\ g.fault = "none" /\ g.password = <<>>
            /\ call' = [NoCall EXCEPT !.op = "save_and_close", !.arg = <<"rejected">>, !.ret = FALSE]
            /\ UNCHANGED <<credentials, keyring, credentials_file>>
       ELSE /\ credentials' = GuiCredentials(credentials, g)
            /\ keyring' = GuiKeyring(keyring, credentials.smtp_user, g)
            /\ credentials_file' =
                  IF GuiKeyringFails(g) THEN credentials_file
                  ELSE FileAfterSave(credentials_file, credentials', g.fault)
            /\ call' = [NoCall EXCEPT !.op = "save_and_close",
                           !.arg = <<IF GuiKeyringFails(g) THEN "keyring_error" ELSE "saved">>,
                           !.ret = ~GuiKeyringFails(g) /\ SaveCredentialsReturns(credentials', g.fault),
                           !.raised = ~GuiKeyringFails(g) /\ SaveCredentialsRaises(credentials')]
    /\ UNCHANGED <<docvars, gui, generated, outbox>>

save_credentials(fault) ==
    /\ credentials_file' = FileAfterSave(credentials_file, credentials, fault)
    /\ call' = [NoCall EXCEPT !.op = "save_credentials", !.arg = <<"saved">>,
                              !.ret = SaveCredentialsReturns(credentials, fault),
                              !.raised = SaveCredentialsRaises(credentials)]
    /\ UNCHANGED <<docvars, gui, credentials, keyring, generated, outbox>>

\* save_generated_files: the keys of files_saved when the step genfault raises
FilesSaved(genfault) ==
    IF genfault = "none" THEN {"schedule", "reminders", "html"}
    ELSE IF genfault = "html" THEN {"schedule", "reminders"}
    ELSE IF genfault = "reminders" THEN {"schedule"}
    ELSE {}

WrittenFile(content) == [exists |-> TRUE, content |-> content]

save_generated_files(gen, genfault, schedule_data, notes_content) ==
    [schedule  |-> IF "schedule" \in FilesSaved(genfault)
                   THEN WrittenFile(TextContent(schedule_data)) ELSE gen.schedule,
     reminders |-> IF "reminders" \in FilesSaved(genfault)
                   THEN WrittenFile(RemindersContent(schedule_data)) ELSE gen.reminders,
     html      |-> IF "html" \in FilesSaved(genfault)
                   THEN WrittenFile(HtmlContent(schedule_data, notes_content)) ELSE gen.html]

Configured(creds) ==
    /\ creds.email_to # <<>>
    /\ creds.email_from # <<>>
    /\ creds.smtp_user # <<>>
    /\ creds.smtp_server # <<>>

\* the password send_email_with_attachments logs in with
PasswordForSendCached(kr, creds) == creds.smtp_pass

PasswordForSend(kr, creds) == KeyringGet(kr, creds.smtp_user)

SmtpErrors == {"SMTPAuthenticationError", "SMTPConnectError", "SMTPServerDisconnected", "SMTPException"}

SmtpOutcomes == {"sent"} \cup SmtpErrors \cup {"Exception"}

BackupOutcomes == {"sent", "no_mail_command", "failed"}

\* the message the manager's SMTP session hands over: the recipient, the login,
\* the HTML part and the attached files
SmtpMessage(creds, password, gen, keys) ==
    [via |-> "smtp", to |-> creds.email_to, user |-> creds.smtp_user,
     password |-> password, body |-> gen.html.content, attachments |-> keys]

\* the message of the 'mail' command
MailMessage(creds, gen) ==
    [via |-> "mail", to |-> creds.email_to, user |-> <<>>, password |-> <<>>,
     body |-> gen.html.content,
     attachments |-> {k \in {"schedule", "reminders", "html"} : gen[k].exists}]

\* the stages of send_email_with_attachments a call gets to
ReachesGeneration(creds, password, kfault) ==
    Configured(creds) /\ kfault = "none" /\ password # <<>>

ReachesRead(creds, password, kfault, genfault) ==
    ReachesGeneration(creds, password, kfault) /\ "html" \in FilesSaved(genfault)

ReachesSmtp(creds, password, kfault, genfault, readfault) ==
    ReachesRead(creds, password, kfault, genfault) /\ ~readfault

\* what the call returns: (success, message), the message by its kind
SendOutcomeBackupOnConnectError(creds, password, kfault, genfault, readfault, smtp, backup) ==
    IF ~Configured(creds) THEN <<FALSE, "not_configured">>
    ELSE IF kfault = "NoKeyringError" THEN <<FALSE, "no_keyring">>
    ELSE IF kfault # "none" THEN <<FALSE, "keyring_error">>
    ELSE IF password = <<>> THEN <<FALSE, "password_not_found">>
    ELSE IF "html" \notin FilesSaved(genfault) THEN <<FALSE, "html_not_generated">>
    ELSE IF readfault THEN <<FALSE, "html_not_read">>
    ELSE IF smtp = "sent" THEN <<TRUE, "sent">>
    ELSE IF smtp \in SmtpErrors \ {"SMTPConnectError"} THEN <<FALSE, smtp>>
    ELSE IF backup = "sent" THEN <<TRUE, "sent_by_mail">>
    ELSE <<FALSE, "failed">>

SendOutcome(creds, password, kfault, genfault, readfault, smtp, backup) ==
    IF ~Configured(creds) THEN <<FALSE, "not_configured">>
    ELSE IF kfault = "NoKeyringError" THEN <<FALSE, "no_keyring">>
    ELSE IF kfault # "none" THEN <<FALSE, "keyring_error">>
    ELSE IF password = <<>> THEN <<FALSE, "password_not_found">>
    ELSE IF "html" \notin FilesSaved(genfault) THEN <<FALSE, "html_not_generated">>
    ELSE IF readfault THEN <<FALSE, "html_not_read">>
    ELSE IF smtp = "sent" THEN <<TRUE, "sent">>
    ELSE IF smtp \in SmtpErrors THEN <<FALSE, smtp>>
    ELSE IF backup = "sent" THEN <<TRUE, "sent_by_mail">>
    ELSE <<FALSE, "failed">>

\* server.login was called: the session ended well, was refused at the login, or
\* broke after send_message (at_quit)
LoggedIn(smtp, at_quit) == smtp \in {"sent", "SMTPAuthenticationError"} \/ at_quit

\* server.send_message returned
Delivered(smtp, at_quit) == smtp = "sent" \/ at_quit

\* the rest of the call once save_generated_files has returned
SendGenerated(kfault, genfault, readfault, smtp, at_quit, backup) ==
    \* the faults of the steps a call does not get to are left out
    /\ ~ReachesRead(credentials, PasswordForSend(keyring, credentials), kfault, genfault)
          => ~readfault
    /\ ~ReachesSmtp(credentials, PasswordForSend(keyring, credentials), kfault, genfault, readfault)
          => smtp = "sent"
    /\ at_quit => smtp \in {"SMTPServerDisconnected", "Exception"}
    /\ smtp # "Exception" => backup = "sent"
    /\ (smtp = "Exception" /\ at_quit /\ backup = "sent") => Len(outbox) + 1 < MaxSends
    /\ outbox' =
          outbox
          \o (IF /\ ReachesSmtp(credentials, PasswordForSend(keyring, credentials), kfault,
                                genfault, readfault)
                 /\ Delivered(smtp, at_quit)
              THEN <<SmtpMessage(credentials, PasswordForSend(keyring, credentials), generated',
                                 FilesSaved(genfault))>>
              ELSE <<>>)
          \o (IF SendOutcome(credentials, PasswordForSend(keyring, credentials), kfault,
                             genfault, readfault, smtp, backup)[2] = "sent_by_mail"
              THEN <<MailMessage(credentials, generated')>>
              ELSE <<>>)
    /\ call' = [NoCall EXCEPT
                   !.op = "send_email",
                   !.ret = SendOutcome(credentials, PasswordForSend(keyring, credentials), kfault,
                                       genfault, readfault, smtp, backup)[1],
                   !.fault = <<kfault, genfault, readfault, smtp, at_quit, backup>>,
                   \* the kind of the message; whether server.login was called, and with
                   \* which password
                   !.arg = <<SendOutcome(credentials, PasswordForSend(keyring, credentials), kfault,
                                         genfault, readfault, smtp, backup)[2],
                             /\ ReachesSmtp(credentials, PasswordForSend(keyring, credentials),
                                            kfault, genfault, readfault)
                             /\ LoggedIn(smtp, at_quit),
                             PasswordForSend(keyring, credentials)>>]

\* send_email_with_attachments() under the faults of its steps: the keyring, the
\* generation of the files, the read of the HTML file, the SMTP session (at_quit:
\* it breaks after send_message) and the backup mail command
send_email_with_attachments(kfault, genfault) ==
    /\ Len(outbox) < MaxSends
    /\ ~Configured(credentials) => kfault = "none"
    /\ ~ReachesGeneration(credentials, PasswordForSend(keyring, credentials), kfault)
          => genfault = "none"
    /\ generated' =
          IF ReachesGeneration(credentials, PasswordForSend(keyring, credentials), kfault)
          THEN save_generated_files(generated, genfault, schedule, additional_notes)
          ELSE generated
    /\ \E readfault \in BOOLEAN, smtp \in SmtpOutcomes, at_quit \in BOOLEAN, backup \in BackupOutcomes :
          SendGenerated(kfault, genfault, readfault, smtp, at_quit, backup)
    /\ UNCHANGED <<docvars, gui, credentials, keyring, credentials_file>>

(***************************************************************************)
(* SpecMail: the credentials are entered at the command line or in the     *)
(* dialog, saved, loaded, and the schedule is mailed; the credentials file *)
(* may be damaged from outside.                                            *)
(***************************************************************************)
Recipient == <<"a", "@", "b", ".", "c", "o">>

Sender == <<"u", "@", "x", ".", "i", "o">>

BadAddress == <<"a", "@", "b">>

\* a valid address that configparser refuses to store
PercentSender == <<"u", "%", "@", "x", ".", "i", "o">>

Passwords == {<<"p">>, <<"q">>}

KeyringFaults == {"none", "NoKeyringError", "KeyringError"}

\* the entries of one run of the command-line prompt, and runs that differ from
\* it in one answer
CliBase ==
    [to |-> <<BadAddress, Recipient>>, from |-> << <<>>, Sender >>, server |-> <<"s">>, port |-> <<>>,
     user |-> <<>>, update |-> FALSE, password |-> <<"p">>, kfault |-> "none", fault |-> "none"]

CliInputs ==
    { CliBase,
      [CliBase EXCEPT !.to = <<Recipient>>],
      [CliBase EXCEPT !.from = <<BadAddress, Sender>>],
      [CliBase EXCEPT !.server = <<>>],
      [CliBase EXCEPT !.port = <<"x">>],
      [CliBase EXCEPT !.update = TRUE, !.password = <<"q">>],
      [CliBase EXCEPT !.update = TRUE, !.password = <<>>],
      [CliBase EXCEPT !.password = <<>>],
      [CliBase EXCEPT !.kfault = "KeyringError"],
      [CliBase EXCEPT !.fault = "open"] }

\* the fields of the dialog at one press of Save
GuiBase ==
    [to |-> Recipient, from |-> Sender, server |-> <<"s">>, port |-> <<>>, user |-> Sender,
     password |-> <<"p">>, kfault |-> "none", fault |-> "none"]

GuiInputs ==
    { GuiBase,
      [GuiBase EXCEPT !.to = BadAddress, !.password = <<>>],
      [GuiBase EXCEPT !.from = <<>>, !.password = <<>>],
      [GuiBase EXCEPT !.port = <<"x">>, !.password = <<>>],
      [GuiBase EXCEPT !.password = <<>>],
      [GuiBase EXCEPT !.from = PercentSender],
      [GuiBase EXCEPT !.kfault = "NoKeyringError"],
      [GuiBase EXCEPT !.kfault = "KeyringError"],
      [GuiBase EXCEPT !.fault = "open"] }

LoadCredentials ==
    \E prompt_if_missing \in BOOLEAN, kfault \in KeyringFaults :
        \E in \in (IF should_prompt(prompt_if_missing, CredsFromFile(credentials, credentials_file),
                                    keyring, kfault)
                   THEN CliInputs ELSE {CHOOSE x \in CliInputs : TRUE}) :
            load_credentials(prompt_if_missing, kfault, in)

PromptCredentialsCli == \E in \in CliInputs : _prompt_credentials_cli(in)

SaveAndClose == \E g \in GuiInputs : save_and_close(g)

SaveCredentials == \E fault \in {"none", "open"} : save_credentials(fault)

SendEmail ==
    \E kfault \in KeyringFaults, genfault \in {"none", "mkdir", "schedule", "reminders", "html"} :
        send_email_with_attachments(kfault, genfault)

\* the credentials file is replaced by one configparser cannot parse
DamageCredentialsFile ==
    /\ credentials_file.exists
    /\ credentials_file.kind = "written"
    /\ credentials_file' = [exists |-> TRUE, kind |-> "garbled", content |-> <<>>]
    /\ call' = [NoCall EXCEPT !.op = "edit_credentials"]
    /\ UNCHANGED <<docvars, gui, credentials, keyring, generated, outbox>>

NextMail ==
    \/ LoadCredentials
    \/ PromptCredentialsCli
    \/ SaveAndClose
    \/ SaveCredentials
    \/ SendEmail
    \/ DamageCredentialsFile

SpecMail == Init /\ [][NextMail]_vars

(***************************************************************************)
(* SpecEncode: one save of any argument, a dict that lacks some weekdays   *)
(* among them, and loads.                                                  *)
(***************************************************************************)
EncodeDay == "Wed"

\* records of the days a partial argument holds
PartialRecords ==
    { [study_time |-> <<"9", "-", "5">>, goals |-> <<"g">>, plans |-> <<Gym>>],
      [study_time |-> <<>>, goals |-> <<"a", "\"", ";">>,
       plans |-> <<[name |-> <<";">>, details |-> <<"x">>]>>],
      [study_time |-> <<"\\", "\"">>,
       goals |-> <<"$", "BACKTICK", "\"", "\\", "\\", "\"", "DEL", ">">>,
       plans |-> <<[name |-> <<"\"", "\\">>, details |-> <<"<", "\"", "\n", "&", "NUL">>]>>],
      [study_time |-> <<"9", "-", "5">>,
       goals |-> LineKey("Sun") \o <<"x", "\"">>,
       plans |-> <<[name |-> LineKey("Monday") \o <<"\"">>, details |-> <<>>]>>] }

\* arguments that lack some weekdays: {} and dicts of one and of two days
PartialInputs ==
    {[d \in S |-> x] : S \in {{}, {"Tues"}, {"Monday", "Sun"}}, x \in PartialRecords}

EncodeInputs ==
    {[initialize_default_schedule EXCEPT ![EncodeDay] = x] : x \in DayInputs}
    \cup PartialInputs

SaveOnce ==
    /\ call.op = "init"
    /\ \E W \in EncodeInputs : save_schedule_data(W, "none", Len(DAYS), TRUE)

NextEncode == SaveOnce \/ Load

SpecEncode == Init /\ [][NextEncode]_vars

(***************************************************************************)
(* SpecBackups: successive saves whose backup copies succeed, and the      *)
(* clock.                                                                  *)
(***************************************************************************)
BackupInputs ==
    { StoreWeek(<<"g">>, <<Gym>>),
      StoreWeek(<<"h">>, <<>>),
      StoreWeek(<<>>, <<Gym, Gym>>),
      StoreWeek(<<"a", "\"">>, <<>>) }

SaveWithBackup ==
    /\ call.saves < MaxSaves + 1
    /\ \E W \in BackupInputs : save_schedule_data(W, "none", Len(DAYS), TRUE)

NextBackups == SaveWithBackup \/ Tick

SpecBackups == Init /\ [][NextBackups]_vars

(***************************************************************************)
(* src/Smaker/gui_interface.py: the window.  gui.day_vars holds, for every  *)
(* day, the text of the two StringVars as typed and the plan list;           *)
(* gui.notes_text is the content of the notes Text widget, to which          *)
(* get("1.0", tk.END) appends a newline; gui.notes_modified_flag is the flag *)
(* the <<Modified>> callback sets.                                           *)
(***************************************************************************)
\* notes_text.get("1.0", tk.END)
NotesWidgetGet == gui.notes_text \o <<"\n">>

\* s.rstrip('\n')
RStripNewlines(s) ==
    With({i \in 1..Len(s) : s[i] # "\n"},
         LAMBDA keep : IF keep = {} THEN <<>> ELSE SubSeq(s, 1, Max(keep)))

_collect_data_from_gui ==
    [day \in DaySet |-> [study_time |-> Strip(gui.day_vars[day].study_time),
                         goals |-> Strip(gui.day_vars[day].goals),
                         plans |-> gui.day_vars[day].plans]]

_is_schedule_modified ==
    \/ DOMAIN _collect_data_from_gui # DOMAIN schedule
    \/ \E day \in DaySet :
          \/ _collect_data_from_gui[day].study_time # schedule[day].study_time
          \/ _collect_data_from_gui[day].goals # schedule[day].goals
          \/ _collect_data_from_gui[day].plans # schedule[day].plans

_is_notes_modified ==
    \/ gui.notes_modified_flag
    \/ RStripNewlines(NotesWidgetGet) # RStripNewlines(additional_notes)

\* the value check_unsaved_changes() returns in the current state
UnsavedChanges == _is_schedule_modified \/ _is_notes_modified

\* the day shown in the window and the texts typed into its fields
GuiDay == "Wed"

GuiFieldTexts == {<<" ", "g", " ">>}

GuiNotesTexts == {<<>>, <<"n">>, <<" ", "n">>, <<"n", "\n">>}

MaxPlans == 1

\* a key press in the study-time or goals entry of the day shown
EditField(field, text) ==
    /\ gui.day_vars[GuiDay][field] # text
    /\ gui' = [gui EXCEPT !.day_vars[GuiDay][field] = text]
    /\ call' = [op |-> "edit", arg |-> <<>>, fault |-> "none", ret |-> TRUE, raised |-> FALSE,
                saves |-> call.saves, backup |-> "none"]
    /\ UNCHANGED <<docvars, mailvars>>

\* _add_plan_gui(): the dialog returned new_plan, whose name is not empty
_add_plan_gui(new_plan) ==
    /\ Len(gui.day_vars[GuiDay].plans) < MaxPlans
    /\ gui' = [gui EXCEPT !.day_vars[GuiDay].plans = Append(@, new_plan)]
    /\ call' = [op |-> "edit", arg |-> <<>>, fault |-> "none", ret |-> TRUE, raised |-> FALSE,
                saves |-> call.saves, backup |-> "none"]
    /\ UNCHANGED <<docvars, mailvars>>

\* _remove_plan_gui() with the plan at `index` (0-based) selected
_remove_plan_gui(index) ==
    /\ 0 <= index /\ index < Len(gui.day_vars[GuiDay].plans)
    /\ gui' = [gui EXCEPT !.day_vars[GuiDay].plans =
                              SubSeq(@, 1, index) \o SubSeq(@, index + 2, Len(@))]
    /\ call' = [op |-> "edit", arg |-> <<>>, fault |-> "none", ret |-> TRUE, raised |-> FALSE,
                saves |-> call.saves, backup |-> "none"]
    /\ UNCHANGED <<docvars, mailvars>>

\* an edit of the notes widget, with the <<Modified>> event it raises handled by
\* _notes_modified_callback
EditNotes(text) ==
    /\ gui.notes_text # text
    /\ gui' = [gui EXCEPT !.notes_text = text, !.notes_modified_flag = TRUE]
    /\ call' = [op |-> "edit", arg |-> <<>>, fault |-> "none", ret |-> TRUE, raised |-> FALSE,
                saves |-> call.saves, backup |-> "none"]
    /\ UNCHANGED <<docvars, mailvars>>

\* _save_all_gui(): save_schedule_data(schedule_data), then save_notes(notes_data),
\* then the four branches.  schedule_fault and notes_fault are the faults of the two
\* saves ("none" or "open"); call.arg holds <<schedule_saved, notes_saved>>.
_save_all_gui(schedule_fault, notes_fault) ==
    /\ answers_file' =
          IF schedule_fault = "none"
          THEN [exists |-> TRUE, content |-> WrittenText(_collect_data_from_gui, Len(DAYS))]
          ELSE answers_file
    /\ backups' = BackupsAfter(answers_file, answers_file'.content, TRUE)
    /\ schedule' = ScheduleAfterSave(schedule_fault = "none", _collect_data_from_gui, schedule)
    /\ notes_file' =
          IF notes_fault = "none"
          THEN [exists |-> TRUE, content |-> Strip(NotesWidgetGet)]
          ELSE notes_file
    /\ additional_notes' = IF notes_fault = "none" THEN Strip(NotesWidgetGet) ELSE additional_notes
    /\ gui' = [gui EXCEPT !.notes_modified_flag = IF notes_fault = "none" THEN FALSE ELSE @]
    /\ call' = [op |-> "save_all_gui",
                arg |-> <<schedule_fault = "none", notes_fault = "none">>,
                fault |-> IF schedule_fault = "none" THEN notes_fault ELSE schedule_fault,
                ret |-> schedule_fault = "none" /\ notes_fault = "none",
                raised |-> FALSE, saves |-> call.saves + 1,
                backup |-> IF answers_file.exists THEN "ok" ELSE "none"]
    /\ UNCHANGED <<now, html, text_schedule, reminders_text, mailvars>>

\* check_unsaved_changes(), as on_closing calls it
check_unsaved_changes ==
    /\ call.op # "check_unsaved_changes"
    /\ call' = [op |-> "check_unsaved_changes", arg |-> <<>>, fault |-> "none",
                ret |-> UnsavedChanges, raised |-> FALSE, saves |-> call.saves, backup |-> "none"]
    /\ UNCHANGED <<docvars, mailvars, gui>>

EditDayFields ==
    \E field \in {"study_time", "goals"}, text \in GuiFieldTexts : EditField(field, text)

AddPlan == _add_plan_gui(Gym)

RemovePlan == \E index \in 0..(MaxPlans - 1) : _remove_plan_gui(index)

TypeNotes == \E text \in GuiNotesTexts : EditNotes(text)

SaveAllGui ==
    /\ call.saves < MaxSaves
    /\ \E schedule_fault \in {"none", "open"}, notes_fault \in {"none", "open"} :
          _save_all_gui(schedule_fault, notes_fault)

NextGui == EditDayFields \/ AddPlan \/ RemovePlan \/ TypeNotes \/ SaveAllGui \/ check_unsaved_changes

SpecGui == Init /\ [][NextGui]_vars

(***************************************************************************)
(* Vocabulary of the claims.                                               *)
(***************************************************************************)
\* the default WeekSchedule as the specification's table gives it
DefaultTable ==
    [day \in DaySet |->
        [study_time |-> IF day = "Sun" THEN <<"1", "2", ":", "0", "0", "-", "2", ":", "0", "0">>
                        ELSE <<"1", "1", ":", "0", "0", "-", "3", ":", "0", "0">>,
         goals |-> <<>>,
         plans |-> <<>>]]

\* a DaySchedule with sanitize_input applied to every text
SanitizedDay(x) ==
    [study_time |-> sanitize_input(x.study_time),
     goals |-> sanitize_input(x.goals),
     plans |-> [i \in 1..Len(x.plans) |->
                  [name |-> sanitize_input(x.plans[i].name),
                   details |-> sanitize_input(x.plans[i].details)]]]

\* the plans of a day whose sanitized name is not empty, sanitized, in order
SurvivingPlans(plans) ==
    With(SelectSeq(plans, LAMBDA p : sanitize_input(p.name) # <<>>),
         LAMBDA keep :
           [i \in 1..Len(keep) |->
              [name |-> sanitize_input(keep[i].name), details |-> sanitize_input(keep[i].details)]])

\* a text that the sanitizer and clean_text leave as it is
PlainText(t) == sanitize_input(t) = t /\ clean_text(t) = t

\* a schedule of plain texts, no empty study time, no empty plan name
PlainSchedule(W) ==
    \A d \in DaySet :
        /\ PlainText(W[d].study_time) /\ W[d].study_time # <<>>
        /\ PlainText(W[d].goals)
        /\ \A i \in 1..Len(W[d].plans) :
              /\ PlainText(W[d].plans[i].name) /\ W[d].plans[i].name # <<>>
              /\ sanitize_input(W[d].plans[i].details) = W[d].plans[i].details

\* a load that read the file without an I/O error, right after a successful save
LoadAfterSave ==
    /\ call.op = "save" /\ call.ret
    /\ call'.op = "load" /\ call'.fault = "none"

\* C1: save_schedule_data(W) followed by load_schedule_data returns W with the
\* sanitizer applied to every text.  Stated for the schedules the sanitizer and
\* clean_text leave unchanged (plain texts, no empty study time or plan name), where
\* the claim says the round trip returns W itself.
C1_RoundTrip ==
    [][(LoadAfterSave /\ PlainSchedule(call.arg))
        => schedule' = [d \in DaySet |-> SanitizedDay(call.arg[d])]]_vars

\* C3: a plan whose sanitized name is empty is neither written nor loaded: saving a
\* schedule that holds such a plan and loading gives every day its other plans.
HasEmptyNamedPlan(W) ==
    \E d \in DaySet : \E i \in 1..Len(W[d].plans) : sanitize_input(W[d].plans[i].name) = <<>>

C3_EmptyNameDropped ==
    [][(LoadAfterSave /\ HasEmptyNamedPlan(call.arg))
        => \A d \in DaySet : schedule'[d].plans = SurvivingPlans(call.arg[d].plans)]_vars

\* --- the record file as the decoder sees it ---
FoundDay(day) ==
    SearchDay(answers_file.content, day, KeyStarts(answers_file.content),
              QuotePlaces(answers_file.content))

\* the parts of a found day's record: legacy segment and JSON segment
PartsOf(day) == SplitOnce(FoundDay(day).data_str, PLAN_SAVE_SEPARATOR)

\* what json.loads makes of a found day's JSON segment: "absent" (no separator),
\* "empty", "list", "notlist", "JSONDecodeError" or "RecursionError"
SegmentKind(day) ==
    IF Len(PartsOf(day)) < 2 THEN "absent"
    ELSE With(Strip(ShellUnescape(PartsOf(day)[2])),
              LAMBDA text :
                IF text = <<>> THEN "empty"
                ELSE With(json_loads(text),
                          LAMBDA r : IF r.st # "ok" THEN r.st
                                     ELSE IF r.val.t = "list" THEN "list" ELSE "notlist"))

Malformed(day) ==
    FoundDay(day).found /\ SegmentKind(day) \in {"notlist", "JSONDecodeError", "RecursionError"}

\* what a day decodes to on its own
DayAlone(day) ==
    IF FoundDay(day).found THEN DecodeDay(day, FoundDay(day).data_str).rec ELSE DefaultTable[day]

\* a load that read an existing file without an I/O error
LoadedFile == call.op = "load" /\ call.fault = "none" /\ answers_file.exists

\* C2: load_schedule_data never raises; a failure that reaches the whole-file
\* handler (an I/O error, an exception of the decoding loop) gives the default
\* WeekSchedule; the schedule always has the seven days with their three fields.
WholeFileFailure ==
    /\ call.op = "load" /\ answers_file.exists
    /\ \/ call.fault = "read"
       \/ DecodeContent(answers_file.content, TRUE, schedule).exc # "none"

C4_CorruptJsonIsolated ==
    LoadedFile =>
        \A d \in DaySet :
            (Malformed(d) /\ \A e \in DaySet \ {d} : ~Malformed(e))
            => /\ schedule[d].plans = <<>>
               /\ schedule[d].study_time = DayAlone(d).study_time
               /\ schedule[d].goals = DayAlone(d).goals
               /\ \A e \in DaySet \ {d} : schedule[e] = DayAlone(e)

\* C5: when some day has a matching line, the days without one get their default
\* DaySchedule and the days with one are decoded from their lines.
C5_MissingDaysDefault ==
    (LoadedFile /\ \E d \in DaySet : FoundDay(d).found)
    => \A d \in DaySet :
          IF FoundDay(d).found THEN schedule[d] = DayAlone(d)
          ELSE schedule[d] = DefaultTable[d]

\* C6: without a record file, or with one that holds no matching line, the load
\* returns the default WeekSchedule of the table.
NoMatchingLine == \A d \in DaySet : ~FoundDay(d).found

C6_DefaultsWhenNothingStored ==
    (call.op = "load" /\ (~answers_file.exists \/ (call.fault = "none" /\ NoMatchingLine)))
    => schedule = DefaultTable

C6_Witness ==
    /\ LoadedFile /\ answers_file.content # <<>> /\ NoMatchingLine
    /\ schedule = DefaultTable

\* C7: a record without separator, with 7 or more fields and "yes" in fields 1 and
\* 3, gives the two fixed-label plans with the details of fields 2 and 4, a "Note"
\* plan exactly when field 6 is not empty, and goals from field 5.  Stated for the
\* records whose field 6 is empty or is left non-empty by clean_text.
LegacyFields(day) == Split(ShellUnescape(FoundDay(day).data_str), <<"|">>)

LegacyTwoYes(day) ==
    /\ FoundDay(day).found
    /\ ~Contains(FoundDay(day).data_str, PLAN_SAVE_SEPARATOR)
    /\ Len(LegacyFields(day)) >= 7
    /\ LegacyFields(day)[2] = Yes /\ LegacyFields(day)[4] = Yes

LegacyTwoPlans(f) ==
    <<[name |-> <<"D", "o", "l", "l", "a", "r", " ", "G", "e", "n", "e", "r", "a", "l">>,
       details |-> clean_text(f[3])],
      [name |-> <<"J", "J", " ", "P", "i", "z", "z", "a">>, details |-> clean_text(f[5])]>>

LegacyAsClaimed(f) ==
    [goals |-> clean_text(f[6]),
     plans |-> IF f[7] # <<>>
               THEN Append(LegacyTwoPlans(f), [name |-> <<"N", "o", "t", "e">>, details |-> clean_text(f[7])])
               ELSE LegacyTwoPlans(f)]

C7_LegacyFallback ==
    LoadedFile =>
        \A d \in DaySet :
            LegacyTwoYes(d) =>
                With(LegacyFields(d),
                     LAMBDA f :
                       (f[7] = <<>> \/ clean_text(f[7]) # <<>>)
                       => /\ schedule[d].plans = LegacyAsClaimed(f).plans
                          /\ schedule[d].goals = LegacyAsClaimed(f).goals)

\* --- saving ---
\* a step of save_schedule_data, of save_notes
SaveStep == call'.op = "save" /\ call'.saves = call.saves + 1

SaveNotesStep == call'.op = "save_notes" /\ call'.saves = call.saves + 1

\* C8: a save over an existing record file first copies the file's pre-save content
\* to the backup path of the current second; a save without a record file makes no
\* backup; a failed copy leaves the backups as they were and does not stop the
\* write or turn the result to False.
C8_BackupBeforeWrite ==
    [][SaveStep =>
         /\ call'.backup = "ok" =>
               /\ answers_file.exists
               /\ [ts |-> now, content |-> answers_file.content] \in backups'
         /\ answers_file.exists => (call'.backup # "none" \/ call'.fault = "mkdir")
         /\ ~answers_file.exists => (call'.backup = "none" /\ backups' = backups)
         /\ call'.backup = "failed" =>
               /\ backups' = backups
               /\ call'.fault = "none" =>
                     /\ call'.ret
                     /\ answers_file' = [exists |-> TRUE,
                                         content |-> WrittenText(call'.arg, Len(DAYS))]]_vars

C8_Witness ==
    /\ call.op = "save" /\ call.ret /\ call.backup = "ok"
    /\ \E b \in backups : b.content # answers_file.content

\* C9: a save that fails returns False without raising and leaves the in-memory
\* value as it was; a save that succeeds returns True and the in-memory value is
\* the argument.  For save_schedule_data and for save_notes.
C9_SaveResult ==
    [][/\ SaveStep =>
            /\ ~call'.raised
            /\ IF call'.fault = "none" THEN call'.ret /\ schedule' = call'.arg
               ELSE ~call'.ret /\ schedule' = schedule
       /\ SaveNotesStep =>
            /\ ~call'.raised
            /\ IF call'.fault = "none" THEN call'.ret /\ additional_notes' = call'.arg
               ELSE ~call'.ret /\ additional_notes' = additional_notes]_vars

C9_Witness ==
    /\ call.op = "save" /\ call.fault = "write" /\ ~call.ret
    /\ schedule # call.arg
    /\ answers_file.exists /\ answers_file.content # WrittenText(call.arg, Len(DAYS))

\* --- the e-mail document ---
\* the user strings the document shows, in document order
RECURSIVE ShownPlans(_)
ShownPlans(plans) ==
    IF plans = <<>> THEN <<>>
    ELSE (IF Strip(Head(plans).details) # <<>> THEN <<Head(plans).name, Head(plans).details>> ELSE <<>>)
         \o ShownPlans(Tail(plans))

ShownOfDay(x) ==
    (IF x.study_time # <<>> THEN <<x.study_time>> ELSE <<>>)
    \o (IF x.goals # <<>> THEN <<x.goals>> ELSE <<>>)
    \o ShownPlans(x.plans)

ShownStrings ==
    Concat([i \in 1..Len(DAYS) |-> ShownOfDay(schedule[DAYS[i]])])
    \o (IF Strip(additional_notes) # <<>> THEN <<Strip(additional_notes)>> ELSE <<>>)

\* the entity that starts at i, as a character; "" when none of html.escape's does
EntityAt(t, i) ==
    CASE IsPrefixAt(t, <<"&", "a", "m", "p", ";">>, i) -> [c |-> "&", n |-> 5]
      [] IsPrefixAt(t, <<"&", "l", "t", ";">>, i) -> [c |-> "<", n |-> 4]
      [] IsPrefixAt(t, <<"&", "g", "t", ";">>, i) -> [c |-> ">", n |-> 4]
      [] IsPrefixAt(t, <<"&", "q", "u", "o", "t", ";">>, i) -> [c |-> "\"", n |-> 6]
      [] IsPrefixAt(t, <<"&", "#", "x", "2", "7", ";">>, i) -> [c |-> "'", n |-> 6]
      [] OTHER -> [c |-> "", n |-> 0]

\* what a browser shows for the text t: entities decoded; <<"LIVE">> when t holds a
\* character that is markup (a bare < > " ' or an & that starts no entity)
RECURSIVE Displayed(_, _)
Displayed(t, i) ==
    IF i > Len(t) THEN <<>>
    ELSE IF t[i] \in {"<", ">", "\"", "'"} THEN <<"LIVE">>
    ELSE IF t[i] = "&"
         THEN IF EntityAt(t, i).n = 0 THEN <<"LIVE">>
              ELSE <<EntityAt(t, i).c>> \o Displayed(t, i + EntityAt(t, i).n)
    ELSE <<t[i]>> \o Displayed(t, i + 1)

TextPieces == SelectSeq(html, LAMBDA p : p.kind = "text")

AllDigits(s) == s # <<>> /\ \A i \in 1..Len(s) : s[i] \in Digits

TimeFields(t) ==
    With(Split(t, <<"-">>),
         LAMBDA halves :
           IF Len(halves) # 2 THEN <<>>
           ELSE Split(halves[1], <<":">>) \o Split(halves[2], <<":">>))

IsHMM(t) ==
    /\ Len(Split(t, <<"-">>)) = 2
    /\ Len(Split(Split(t, <<"-">>)[1], <<":">>)) = 2
    /\ Len(TimeFields(t)) = 4
    /\ \A i \in 1..4 : AllDigits(TimeFields(t)[i])

\* the minutes the claim gives a study_time: end - start, the end hour 12 later
\* exactly when it is less than the start hour; zero for a text that does not parse
ClaimedMinutes(t) ==
    IF ~IsHMM(t) THEN 0
    ELSE With([i \in 1..4 |-> PyInt(TimeFields(t)[i])],
              LAMBDA f : ((IF f[3] < f[1] THEN f[3] + 12 ELSE f[3]) * 60 + f[4]) - (f[1] * 60 + f[2]))

\* the study_time is of the form H:MM-H:MM, or the code does not parse it
FormOrUnparsed(t) == IsHMM(t) \/ ~time_match(t).ok

ReportedTotal ==
    text_schedule[CHOOSE i \in 1..Len(text_schedule) :
                     text_schedule[i].field = "total_study_hours"].text

MondayElevenToThree ==
    [EmptyWeek EXCEPT !["Monday"].study_time = <<"1", "1", ":", "0", "0", "-", "3", ":", "0", "0">>]

CategoryOrder ==
    <<"work", "appointment", "eating", "sleeping", "praying", "break", "study", "play", "youtube">>

KeywordsOf(category) ==
    CASE category = "work" -> WorkWords
      [] category = "appointment" -> AppointmentWords
      [] category = "eating" -> EatWords
      [] category = "sleeping" -> SleepingWords
      [] category = "praying" -> PrayWords
      [] category = "break" -> BreakWords
      [] category = "study" -> StudyWords
      [] category = "play" -> PlayWords
      [] category = "youtube" -> YoutubeWords

\* a keyword of the category occurs in the name, letter case apart
Matches(category, name) ==
    \E w \in KeywordsOf(category) :
       \E at \in 1..(Len(name) - Len(w) + 1) :
          \A k \in 1..Len(w) : Lower(<<name[at + k - 1]>>) = <<w[k]>>

ClaimedCategory(name) ==
    IF \E i \in 1..Len(CategoryOrder) : Matches(CategoryOrder[i], name)
    THEN CategoryOrder[Min({i \in 1..Len(CategoryOrder) : Matches(CategoryOrder[i], name)})]
    ELSE "other"

\* the (day, plan) pairs whose details is not empty after trimming, in day and plan order
VisiblePairsOf(day) ==
    With(SelectSeq(schedule[day].plans, LAMBDA p : Strip(p.details) # <<>>),
         LAMBDA vis : [k \in 1..Len(vis) |-> [day |-> day, plan |-> vis[k]]])

VisiblePairs == Concat([i \in 1..Len(DAYS) |-> VisiblePairsOf(DAYS[i])])

\* the plan lines that the view lists in a category, in order
ListedIn(category) == SelectSeq(reminders_text, LAMBDA l : l.kind = "text" /\ l.field = category)

\* the pairs the claim puts in a category, as the view formats them
ClaimedIn(category) ==
    With(SelectSeq(VisiblePairs, LAMBDA pair : ClaimedCategory(pair.plan.name) = category),
         LAMBDA mine :
           [k \in 1..Len(mine) |->
              [kind |-> "text", field |-> category, day |-> PadRight(DayChars(mine[k].day), 10),
               name |-> PadRight(mine[k].plan.name, 25),
               text |-> PadRight(SubSeq(mine[k].plan.details, 1,
                                        IF Len(mine[k].plan.details) < 23
                                        THEN Len(mine[k].plan.details) ELSE 23), 23)]])

AllCategories == {CategoryOrder[i] : i \in 1..Len(CategoryOrder)} \cup {"other"}

\* C12: generate_reminders lists every (day, plan) pair whose details is not empty
\* after trimming in exactly one of the ten categories: the first of work,
\* appointment, eating, sleeping, praying, break, study, play, youtube with a keyword
\* in the plan name, letter case apart, and 'other' when there is none; no pair is
\* listed twice or left out.
C12_ReminderCategories ==
    call.op = "reminders" =>
        /\ \A c \in AllCategories : ListedIn(c) = ClaimedIn(c)
        /\ Len(SelectSeq(reminders_text, LAMBDA l : l.kind = "text" /\ l.field # "goal"))
           = Len(VisiblePairs)

C12_Witness ==
    /\ call.op = "reminders"
    /\ Len(ListedIn("work")) = 2 /\ Len(ListedIn("play")) = 2 /\ Len(VisiblePairs) = 4
    /\ ListedIn("work")[1].name = PadRight(<<"h", "o", "m", "e", "w", "o", "r", "k">>, 25)
    /\ Len(schedule["Monday"].plans) = 3

\* --- the day sections of the two renderers ---
IsTextHeader(p) == p.kind = "markup" /\ Len(p.text) >= 1 /\ p.text[1] = "["

IsHtmlHeader(p) == p.kind = "markup" /\ Len(p.text) >= 2 /\ p.text[1] = "<td>" /\ p.text[2] = "<h3>"

NoScheduleSet == <<"N", "o", " ", "s", "c", "h", "e", "d", "u", "l", "e", " ", "s", "e", "t">>

IsTextPlaceholder(p) == p.kind = "markup" /\ p.text = NoScheduleSet

IsHtmlPlaceholder(p) ==
    p.kind = "markup" /\ p.text = <<"<table>", "<p>">> \o NoScheduleSet \o <<"</p>", "</table>">>

\* the position of the i-th day header of the text schedule, of the document
TextHeaderAt(i) ==
    CHOOSE k \in 1..Len(text_schedule) :
        /\ IsTextHeader(text_schedule[k])
        /\ Cardinality({j \in 1..k : IsTextHeader(text_schedule[j])}) = i

HtmlHeaderAt(i) ==
    CHOOSE k \in 1..Len(html) :
        /\ IsHtmlHeader(html[k])
        /\ Cardinality({j \in 1..k : IsHtmlHeader(html[j])}) = i

\* the i-th day section shows the placeholder
TextShowsPlaceholder(i) ==
    \E k \in (TextHeaderAt(i) + 1)..(IF i < Len(DAYS) THEN TextHeaderAt(i + 1) - 1 ELSE Len(text_schedule)) :
        IsTextPlaceholder(text_schedule[k])

HtmlShowsPlaceholder(i) ==
    \E k \in (HtmlHeaderAt(i) + 1)..(IF i < Len(DAYS) THEN HtmlHeaderAt(i + 1) - 1 ELSE Len(html)) :
        IsHtmlPlaceholder(html[k])

\* the day has no study_time, no goals and no plan with details after trimming
NothingToShow(day) ==
    /\ schedule[day].study_time = <<>>
    /\ schedule[day].goals = <<>>
    /\ \A i \in 1..Len(schedule[day].plans) : Strip(schedule[day].plans[i].details) = <<>>

TextRendered == text_schedule # <<>>

HtmlRendered == html # <<>>

\* C13: the text schedule and the HTML document each render every weekday once, in
\* canonical order, and show a day's "No schedule set" placeholder exactly when the
\* day has no study_time, no goals and no plan whose details is non-empty after
\* trimming; so the two agree on it.
C13_PlaceholderAgreement ==
    /\ TextRendered =>
          /\ SelectSeq(text_schedule, IsTextHeader)
             = [i \in 1..Len(DAYS) |-> Markup(<<"[">> \o Upper(DayChars(DAYS[i])) \o <<"]">>)]
          /\ \A i \in 1..Len(DAYS) : TextShowsPlaceholder(i) <=> NothingToShow(DAYS[i])
    /\ HtmlRendered =>
          /\ SelectSeq(html, IsHtmlHeader)
             = [i \in 1..Len(DAYS) |-> Markup(<<"<td>", "<h3>">> \o DayChars(DAYS[i]) \o <<"</h3>">>)]
          /\ \A i \in 1..Len(DAYS) : HtmlShowsPlaceholder(i) <=> NothingToShow(DAYS[i])
    /\ (TextRendered /\ HtmlRendered) =>
          \A i \in 1..Len(DAYS) : TextShowsPlaceholder(i) <=> HtmlShowsPlaceholder(i)

C13_Witness ==
    /\ TextRendered /\ HtmlRendered
    /\ schedule["Tues"].plans = <<[name |-> <<"a">>, details |-> <<" ">>]>>
    /\ TextShowsPlaceholder(2) /\ HtmlShowsPlaceholder(2)
    /\ ~TextShowsPlaceholder(1) /\ ~HtmlShowsPlaceholder(1)

\* --- plan order ---
\* C14: after save_schedule_data and load_schedule_data every day's plans are the
\* saved day's plans whose sanitized name is not empty, sanitized, in the order in
\* which they were inserted.
C14_PlanOrderPreserved ==
    [][LoadAfterSave => \A d \in DaySet : schedule'[d].plans = SurvivingPlans(call.arg[d].plans)]_vars

\* --- notes ---
\* a step of load_schedule_data, of load_notes
LoadStep == call'.op = "load"

LoadNotesAfterSaveNotes ==
    /\ call.op = "save_notes" /\ call.ret
    /\ call'.op = "load_notes" /\ call'.fault = "none"

\* C15: notes are stored apart from the schedule: a load_notes after a successful
\* save_notes(n) returns n as it was given; save_notes leaves the schedule and the
\* record file as they were; save_schedule_data and load_schedule_data leave the
\* notes and the notes file as they were.
C15_NotesIndependent ==
    [][/\ LoadNotesAfterSaveNotes => additional_notes' = call.arg
       /\ SaveNotesStep => (schedule' = schedule /\ answers_file' = answers_file)
       /\ (SaveStep \/ LoadStep)
          => (additional_notes' = additional_notes /\ notes_file' = notes_file)]_vars

(***************************************************************************)
(* C18.  sanitize_input returns its input with exactly the characters      *)
(* ; & < > $ ` \ and the control characters 0x00-0x1F and 0x7F deleted,    *)
(* every other character (double quote and pipe included) kept in order;   *)
(* "DIEEEEE" comes back unchanged and the empty input gives "".            *)
(***************************************************************************)
ClaimedDeleted ==
    {";", "&", "<", ">", "$", "BACKTICK", "\\"}
    \cup {"NUL", "\t", "\n", "\r", "\f", "ESC"} \cup {"DEL"}

RECURSIVE KeptInOrder(_)
KeptInOrder(x) ==
    IF x = <<>> THEN <<>>
    ELSE IF Head(x) \in ClaimedDeleted THEN KeptInOrder(Tail(x))
    ELSE <<Head(x)>> \o KeptInOrder(Tail(x))

SanitizeCalled == call.op = "sanitize_input"

C18_SanitizeDeletesExactly ==
    SanitizeCalled =>
        /\ call.ret = KeptInOrder(call.arg[1])
        /\ (call.arg[1] = SENTINEL => call.ret = SENTINEL)
        /\ (call.arg[1] = <<>> => call.ret = <<>>)

\* an input with deleted and kept characters, a double quote and a pipe among the kept
C18_Witness ==
    /\ SanitizeCalled
    /\ \E i \in 1..Len(call.arg[1]) : call.arg[1][i] \in ClaimedDeleted
    /\ \E i \in 1..Len(call.ret) : call.ret[i] = "\""
    /\ \E i \in 1..Len(call.ret) : call.ret[i] = "|"
    /\ Len(call.ret) >= 2

(***************************************************************************)
(* C19.  sanitize_input is idempotent:                                     *)
(* sanitize_input(sanitize_input(x)) = sanitize_input(x) for every x, also *)
(* when the first pass yields the sentinel "DIEEEEE".                      *)
(***************************************************************************)
SanitizedTwice == call.op = "sanitize_again"

C19_SanitizeIdempotent == SanitizedTwice => call.ret = call.arg[2]

\* the first pass turned another text into the sentinel
C19_Witness ==
    /\ SanitizedTwice
    /\ call.arg[1] # SENTINEL
    /\ call.arg[2] = SENTINEL

(***************************************************************************)
(* C20.  is_valid_email(s) is true exactly when the whole of s is one or   *)
(* more of [A-Za-z0-9._%+-], an @, one or more of [A-Za-z0-9.-], a dot and *)
(* a final label of two or more letters.                                   *)
(***************************************************************************)
AddressLetters ==
    {"a", "b", "c", "d", "e", "f", "g", "h", "i", "j", "k", "l", "m",
     "n", "o", "p", "q", "r", "s", "t", "u", "v", "w", "x", "y", "z",
     "A", "B", "C", "D", "E", "F", "G", "H", "I", "J", "K", "L", "M",
     "N", "O", "P", "Q", "R", "S", "T", "U", "V", "W", "X", "Y", "Z"}

AddressDigits == {"0", "1", "2", "3", "4", "5", "6", "7", "8", "9"}

\* s, in its entirety, is an address of the claimed form
IsAddress(s) ==
    \E at \in 2..Len(s), dot \in 4..Len(s) :
        /\ at + 1 < dot
        /\ dot + 2 <= Len(s)
        /\ \A k \in 1..(at - 1) : s[k] \in AddressLetters \cup AddressDigits \cup {".", "_", "%", "+", "-"}
        /\ s[at] = "@"
        /\ \A k \in (at + 1)..(dot - 1) : s[k] \in AddressLetters \cup AddressDigits \cup {".", "-"}
        /\ s[dot] = "."
        /\ \A k \in (dot + 1)..Len(s) : s[k] \in AddressLetters

EmailChecked == call.op = "is_valid_email"

C20_ValidEmailIffAddress == EmailChecked => (call.ret <=> IsAddress(call.arg[1]))

\* the part that holds: every address of the claimed form is accepted
C20_AddressesAccepted == EmailChecked /\ IsAddress(call.arg[1]) => call.ret

\* what is accepted is an address, or an address followed by one newline
C20_AcceptedUpToNewline ==
    EmailChecked /\ call.ret =>
        \/ IsAddress(call.arg[1])
        \/ /\ call.arg[1][Len(call.arg[1])] = "\n"
           /\ IsAddress(SubSeq(call.arg[1], 1, Len(call.arg[1]) - 1))

C20_TrailingNewlineAccepted ==
    /\ EmailChecked
    /\ call.arg[1] = <<"a", "@", "b", ".", "c", "o", "\n">>
    /\ call.ret

(***************************************************************************)
(* C16.  The SMTP password is never retained: after load_credentials, the  *)
(* command-line and dialog prompts, save_credentials and                   *)
(* send_email_with_attachments, credentials['smtp_pass'] is None; each     *)
(* send logs in with the password the keyring holds for the user at that   *)
(* moment; the credentials file never holds the password.                  *)
(***************************************************************************)
CredentialOps == {"load_credentials", "prompt_cli", "save_and_close", "save_credentials", "send_email"}

\* every password the keyring holds or the prompts may store
KnownPasswords == Passwords \cup {keyring[u] : u \in DOMAIN keyring}

FileHoldsNoPassword ==
    credentials_file.kind = "written" =>
        /\ DOMAIN credentials_file.content
              = {"email_to", "email_from", "smtp_server", "smtp_port", "smtp_user"}
        /\ \A k \in DOMAIN credentials_file.content : credentials_file.content[k] \notin KnownPasswords

\* a send that logged in used the keyring's password, and one that reports the
\* password missing found none in the keyring
SendReadKeyring ==
    call.op = "send_email" =>
        /\ call.arg[2] => call.arg[3] = KeyringGet(keyring, credentials.smtp_user)
        /\ call.arg[1] = "password_not_found" => KeyringGet(keyring, credentials.smtp_user) = <<>>
        /\ \A i \in 1..Len(outbox) : outbox[i].via = "smtp" => outbox[i].password \in Passwords

C16_PasswordNeverRetained ==
    /\ call.op \in CredentialOps => credentials.smtp_pass = None
    /\ SendReadKeyring
    /\ FileHoldsNoPassword

\* a password was stored, the credentials were saved, the password was replaced,
\* and a send then logged in with the new one
C16_Witness ==
    /\ call.op = "send_email"
    /\ call.arg[2]
    /\ call.arg[3] = <<"q">>
    /\ credentials_file.kind = "written"
    /\ credentials.smtp_pass = None

(***************************************************************************)
(* C17.  send_email_with_attachments returns a (success, message) pair and *)
(* never raises; incomplete configuration, a password missing from the     *)
(* keyring, a keyring error, a failure to generate or read the HTML file   *)
(* and the SMTP authentication, connect, disconnect and protocol errors    *)
(* give (False, message); True is returned only when this call handed the  *)
(* message to SMTP or to the backup mail command.                          *)
(***************************************************************************)
SendFaults == call'.fault

SendFailureCase ==
    \/ ~Configured(credentials)
    \/ KeyringGet(keyring, credentials.smtp_user) = <<>>
    \/ SendFaults[1] # "none"
    \/ SendFaults[2] # "none"
    \/ SendFaults[3]
    \/ SendFaults[4] \in {"SMTPAuthenticationError", "SMTPConnectError", "SMTPServerDisconnected",
                          "SMTPException"}

MessageKinds ==
    {"not_configured", "no_keyring", "keyring_error", "password_not_found", "html_not_generated",
     "html_not_read", "sent", "SMTPAuthenticationError", "SMTPConnectError",
     "SMTPServerDisconnected", "SMTPException", "sent_by_mail", "failed"}

SentByThisCall ==
    /\ Len(outbox') > Len(outbox)
    /\ outbox'[Len(outbox')].to = credentials.email_to
    /\ outbox'[Len(outbox')].body = generated'.html.content
    /\ outbox'[Len(outbox')].via = (IF call'.arg[1] = "sent" THEN "smtp" ELSE "mail")

HasSeparator(day) == FoundDay(day).found /\ Len(PartsOf(day)) > 1

\* the plans the JSON segment alone gives: the validated list, nothing when the
\* segment is empty, blank, not a list or not JSON
JsonSegmentPlans(day) ==
    IF SegmentKind(day) = "list"
    THEN ValidatedPlans(json_loads(Strip(ShellUnescape(PartsOf(day)[2]))).val.v)
    ELSE <<>>

\* the pipe-delimited fields of the legacy segment of a record with separator
LegacySegmentFields(day) == Split(ShellUnescape(PartsOf(day)[1]), <<"|">>)

\* the JSON segment is the empty string
EmptyJsonSegment(day) == HasSeparator(day) /\ PartsOf(day)[2] = <<>>

\* a load whose day loop ran to its end
LoadedDays == LoadedFile /\ ~WholeFileFailure

\* C21: a day whose captured content holds the separator token gets its plans from
\* the JSON segment only (none when the segment is empty or blank) and its goals
\* from field 1: the legacy work-entry/note synthesis and the field-5 overwrite of
\* goals are not applied to it, however many fields the legacy segment has.
C21_SeparatorMeansJsonOnly ==
    LoadedDays =>
        \A d \in DaySet :
            HasSeparator(d) =>
                /\ schedule[d].plans = JsonSegmentPlans(d)
                /\ schedule[d].goals = GoalsOf(LegacySegmentFields(d))

\* the same for the records whose JSON segment is not the empty string
C21_NonEmptySegmentJsonOnly ==
    LoadedDays =>
        \A d \in DaySet :
            (HasSeparator(d) /\ ~EmptyJsonSegment(d)) =>
                /\ schedule[d].plans = JsonSegmentPlans(d)
                /\ schedule[d].goals = GoalsOf(LegacySegmentFields(d))

\* a record with separator, seven legacy fields and a blank JSON segment was loaded
C21_BlankSegmentLoaded ==
    /\ LoadedDays
    /\ \E d \in DaySet :
          /\ HasSeparator(d) /\ ~EmptyJsonSegment(d)
          /\ SegmentKind(d) = "empty"
          /\ Len(LegacySegmentFields(d)) >= 7
          /\ schedule[d].plans = <<>>

\* a record with separator, seven legacy fields and an empty JSON segment was
\* loaded and got the synthesized legacy plans
C21_EmptySegmentTakenAsLegacy ==
    /\ LoadedDays
    /\ \E d \in DaySet :
          /\ EmptyJsonSegment(d)
          /\ Len(LegacySegmentFields(d)) >= 7
          /\ schedule[d].plans # <<>>

(***************************************************************************)
(* C22: study_time of a found day.                                         *)
(***************************************************************************)
\* field 0 of the unescaped legacy segment of a found day, after clean_text
CleanedFieldZero(day) == clean_text(Split(ShellUnescape(PartsOf(day)[1]), <<"|">>)[1])

\* the cleaned value is empty or holds the substring "information"
FieldZeroUnusable(day) ==
    \/ CleanedFieldZero(day) = <<>>
    \/ \E i \in 1..(Len(CleanedFieldZero(day)) - 10) :
          SubSeq(CleanedFieldZero(day), i, i + 10)
              = <<"i", "n", "f", "o", "r", "m", "a", "t", "i", "o", "n">>

\* the study_time the claim gives a found day
ClaimedStudyTime(day) ==
    IF FieldZeroUnusable(day) THEN DefaultTable[day].study_time ELSE CleanedFieldZero(day)

\* C22: the study_time of a day whose line was found is field 0 of the unescaped
\* legacy segment after clean_text, replaced by the weekday's default exactly when
\* the cleaned value is empty or holds "information"; it is never empty.
C22_StudyTimeFromFieldZero ==
    LoadedFile =>
        \A d \in DaySet :
            FoundDay(d).found =>
                /\ schedule[d].study_time = ClaimedStudyTime(d)
                /\ schedule[d].study_time # <<>>

\* the same for the loads whose day loop ran to its end
C22_StudyTimeWhenLoopEnds ==
    LoadedDays =>
        \A d \in DaySet :
            FoundDay(d).found =>
                /\ schedule[d].study_time = ClaimedStudyTime(d)
                /\ schedule[d].study_time # <<>>

\* a field 0 that held a captured prompt label was cleaned to a usable study time,
\* and one that held "information" was replaced by the default
C22_LabelCleaned ==
    /\ LoadedDays
    /\ FoundDay("Wed").found
    /\ PartsOf("Wed")[1] # <<>>
    /\ CleanedFieldZero("Wed") = <<"9", "-", "5">>
    /\ Len(Split(ShellUnescape(PartsOf("Wed")[1]), <<"|">>)[1]) > 3
    /\ schedule["Wed"].study_time = <<"9", "-", "5">>

C22_InformationReplaced ==
    /\ LoadedDays
    /\ \E d \in DaySet :
          /\ FoundDay(d).found
          /\ CleanedFieldZero(d) # <<>> /\ FieldZeroUnusable(d)
          /\ schedule[d].study_time = DefaultTable[d].study_time

\* another day's over-deep JSON segment reset a found day's usable study time
C22_ResetByOtherDay ==
    /\ LoadedFile /\ WholeFileFailure
    /\ \E d \in DaySet :
          /\ FoundDay(d).found /\ ~FieldZeroUnusable(d)
          /\ SegmentKind(d) # "RecursionError"
          /\ schedule[d].study_time # CleanedFieldZero(d)

(***************************************************************************)
(* C23: the lines a successful save writes.                                *)
(***************************************************************************)
\* the lines of a file: the text between line feeds (a last, empty piece when the
\* file ends in a line feed)
FileLines(content) == Split(content, <<"\n">>)

\* the number of lines of the preamble
PreambleLines == 12

\* the day record the claim encodes for a weekday: the argument's, the default
\* day record when the argument lacks the weekday
RecordToEncode(W, day) == IF day \in DOMAIN W THEN W[day] ELSE DefaultTable[day]

\* <study_time>|<goals>||PLANS|| as the line holds it, quotes escaped
ClaimedHead(x) ==
    ShellEscape(sanitize_input(x.study_time)) \o <<"|">>
    \o ShellEscape(sanitize_input(x.goals)) \o PLAN_SAVE_SEPARATOR

\* the plans a JSON list of objects holds, without further validation
PlansOfList(items) ==
    [i \in 1..Len(items) |->
        [name |-> ItemGetStr(items[i], <<"n", "a", "m", "e">>),
         details |-> ItemGetStr(items[i], <<"d", "e", "t", "a", "i", "l", "s">>)]]

\* the text behind the head is a JSON list (shell-escaped) of the surviving plans
IsPlansJson(text, plans) ==
    With(json_loads(ShellUnescape(text)),
         LAMBDA r :
           /\ r.st = "ok"
           /\ r.val.t = "list"
           /\ \A i \in 1..Len(r.val.v) : r.val.v[i].t = "dict"
           /\ PlansOfList(r.val.v) = SurvivingPlans(plans)
           /\ SurvivingPlans(plans) = <<>> => text = <<"[", "]">>)

\* line is  schedule[<day>]="<head><plans_json>"  for the record x
IsDayLine(line, day, x) ==
    With(LineKey(day) \o ClaimedHead(x),
         LAMBDA head :
           /\ IsPrefixAt(line, head, 1)
           /\ Len(line) > Len(head)
           /\ line[Len(line)] = "\""
           /\ IsPlansJson(SubSeq(line, Len(head) + 1, Len(line) - 1), x.plans))

\* save_schedule_data has just returned True
Saved == call.op = "save" /\ call.ret

\* the lines behind the preamble are the seven day lines of W and nothing more
SevenDayLines(lines, W) ==
    /\ Len(lines) = PreambleLines + 7 + 1
    /\ lines[PreambleLines + 8] = <<>>
    /\ \A i \in 1..7 :
          IsDayLine(lines[PreambleLines + i],
                    <<"Monday", "Tues", "Wed", "Thur", "Fri", "Sat", "Sun">>[i],
                    RecordToEncode(W, <<"Monday", "Tues", "Wed", "Thur", "Fri", "Sat", "Sun">>[i]))

\* C23: a successful save writes the preamble and then exactly one line
\* schedule[<Day>]="<study_time>|<goals>||PLANS||<plans_json>" per weekday, in the
\* order Monday, Tues, Wed, Thur, Fri, Sat, Sun, with the default day record for a
\* weekday the argument lacks; <plans_json> is a JSON list, "[]" when no plan survives.
C23_SevenDayLines ==
    Saved =>
        /\ IsPrefixAt(answers_file.content, Preamble, 1)
        /\ SevenDayLines(FileLines(answers_file.content), call.arg)

\* a dict of two days was saved: the other five lines hold the default records
C23_Witness ==
    /\ Saved
    /\ DOMAIN call.arg = {"Monday", "Sun"}
    /\ call.arg["Sun"].plans # <<>> /\ SurvivingPlans(call.arg["Sun"].plans) = <<>>
    /\ Len(FileLines(answers_file.content)) = PreambleLines + 8

(***************************************************************************)
(* C24: the plans the text report lists and counts.                        *)
(***************************************************************************)
\* details is non-empty after trimming: it holds a character that is not whitespace
HasDetails(p) == \E k \in 1..Len(p.details) : p.details[k] \notin {" ", "\t", "\n", "\r", "\f"}

\* the lines of the i-th day section of the text schedule
TextSection(i) ==
    SubSeq(text_schedule, TextHeaderAt(i) + 1,
           IF i < Len(DAYS) THEN TextHeaderAt(i + 1) - 1 ELSE Len(text_schedule))

\* the plan-name lines of the i-th day section, in order
ListedPlanLines(i) ==
    SelectSeq(TextSection(i), LAMBDA l : l.kind = "text" /\ l.field = "plan_name")

\* the names the claim lists under a day: those of its plans with details, in
\* order, as the bullet line pads them
ClaimedPlanLines(day) ==
    With(SelectSeq(schedule[day].plans, HasDetails),
         LAMBDA shown : [k \in 1..Len(shown) |-> PadRight(shown[k].name, 59)])

\* the number a summary line reports
SummaryText(field) ==
    text_schedule[CHOOSE k \in 1..Len(text_schedule) :
                     text_schedule[k].kind = "text" /\ text_schedule[k].field = field].text

PlansWithDetails ==
    {<<d, k>> \in DaySet \X (1..3) : k <= Len(schedule[d].plans) /\ HasDetails(schedule[d].plans[k])}

DaysWithGoals == {d \in DaySet : Len(schedule[d].goals) > 0}

\* C24: the text report lists under each day exactly the plans whose details is not
\* empty after trimming, 'Total Plans/Activities' is the number of such plans over
\* the week, and 'Days with Goals Set' is the number of weekdays with non-empty goals.
C24_VisiblePlansCounted ==
    (call.op = "text" /\ TextRendered) =>
        /\ \A i \in 1..Len(DAYS) :
              /\ Len(ListedPlanLines(i)) = Len(ClaimedPlanLines(DAYS[i]))
              /\ \A k \in 1..Len(ListedPlanLines(i)) :
                    ListedPlanLines(i)[k].text = ClaimedPlanLines(DAYS[i])[k]
        /\ SummaryText("total_plans") = PyStrNat(Cardinality(PlansWithDetails))
        /\ SummaryText("days_with_goals") = PyStrNat(Cardinality(DaysWithGoals)) \o <<"/", "7">>

\* plans with and without details on two days, and a goals text of one space
C24_Witness ==
    /\ call.op = "text" /\ TextRendered
    /\ Len(schedule["Tues"].plans) = 3 /\ Len(ListedPlanLines(2)) = 2
    /\ Len(schedule["Sat"].plans) = 1 /\ Len(ListedPlanLines(6)) = 0
    /\ schedule["Tues"].goals = <<" ">>
    /\ SummaryText("total_plans") = <<"2">>
    /\ SummaryText("days_with_goals") = <<"1", "/", "7">>

(***************************************************************************)
(* C25: the in-memory schedule and the file just written.                  *)
(***************************************************************************)
\* what load_schedule_data decodes from the record file as it stands
PersistedSchedule == LoadResult(answers_file, TRUE, schedule).sched

\* C25: after save_schedule_data(S) has returned True, manager.schedule equals the
\* schedule that load_schedule_data decodes from the file just written, for every S.
C25_MemoryEqualsPersisted == Saved => schedule = PersistedSchedule

\* the same for the arguments that hold all seven weekdays and only texts that the
\* sanitizer and clean_text leave as they are, without '|' in study_time and goals
\* and without "information" in study_time
PipeFree(W) ==
    \A d \in DaySet :
        /\ \A k \in 1..Len(W[d].study_time \o W[d].goals) :
              (W[d].study_time \o W[d].goals)[k] # "|"
        /\ StudyTimeOrDefault(d, W[d].study_time) = W[d].study_time

C25_PlainArgumentsAgree ==
    (Saved /\ DOMAIN call.arg = DaySet) =>
        ((PlainSchedule(call.arg) /\ PipeFree(call.arg)) => schedule = PersistedSchedule)

\* a plain argument was saved and the memory agrees with the file
C25_PlainSaved ==
    /\ Saved /\ DOMAIN call.arg = DaySet
    /\ PlainSchedule(call.arg) /\ PipeFree(call.arg)
    /\ call.arg[EncodeDay].goals = <<"a", "\"">>
    /\ schedule = PersistedSchedule

(***************************************************************************)
(* C26: the record file after a save, successful or not.                   *)
(***************************************************************************)
\* the content is a whole encoding: the preamble, then a line for each weekday, the
\* last one closed
CompleteEncoding(content) ==
    /\ IsPrefixAt(content, Preamble, 1)
    /\ \A d \in DaySet : Contains(content, <<"\n">> \o LineKey(d))
    /\ Len(content) > Len(Preamble)
    /\ SubSeq(content, Len(content) - 1, Len(content)) = <<"\"", "\n">>

\* C26: after any save_schedule_data call, whether it returns True or False, the
\* record file holds either what it held before the call or a complete encoding,
\* with the preamble and all seven day lines.
C26_NeverPartiallyWritten ==
    [][SaveStep =>
         \/ answers_file' = answers_file
         \/ answers_file'.exists /\ CompleteEncoding(answers_file'.content)]_vars

\* the same for the calls that return True
C26_CompleteOnSuccess ==
    [][(SaveStep /\ call'.ret) =>
         answers_file'.exists /\ CompleteEncoding(answers_file'.content)]_vars

\* a save over a complete file failed in the day loop and left the preamble and
\* one day line
C26_TruncatedFile ==
    /\ call.op = "save" /\ ~call.ret /\ call.fault = "write"
    /\ call.backup = "ok"
    /\ answers_file.exists
    /\ answers_file.content = WrittenText(call.arg, 1)
    /\ ~CompleteEncoding(answers_file.content)
    /\ \E b \in backups : CompleteEncoding(b.content)

(***************************************************************************)
(* C27: the value between the outer quotes of a written day line.          *)
(***************************************************************************)
\* the characters the claim bans from the value
ShellActive == {";", "&", "<", ">", "$", "BACKTICK"}

ControlCharacters == {"NUL", "\t", "\n", "\r", "\f", "ESC", "DEL"}

\* the number of backslashes that stand directly before place q of v
RECURSIVE BackslashesBefore(_, _)
BackslashesBefore(v, q) ==
    IF q > 1 /\ v[q - 1] = "\\" THEN 1 + BackslashesBefore(v, q - 1) ELSE 0

\* no banned character, and every double quote escaped
SafeValue(v) ==
    /\ \A k \in 1..Len(v) : v[k] \notin ShellActive \cup ControlCharacters
    /\ \A q \in 1..Len(v) : v[q] = "\"" => BackslashesBefore(v, q) % 2 = 1

\* the value of the day line `line`: what stands between  schedule[<day>]="  and the
\* last character of the line
ValueOfLine(line, day) == SubSeq(line, Len(LineKey(day)) + 1, Len(line) - 1)

\* the written day lines are safe and the decoder's pattern captures each value whole
SafeDayLines(lines) ==
    \A i \in 1..Len(DAYS) :
        /\ IsPrefixAt(lines[PreambleLines + i], LineKey(DAYS[i]), 1)
        /\ lines[PreambleLines + i][Len(lines[PreambleLines + i])] = "\""
        /\ SafeValue(ValueOfLine(lines[PreambleLines + i], DAYS[i]))
        /\ FoundDay(DAYS[i]).found
        /\ FoundDay(DAYS[i]).data_str = ValueOfLine(lines[PreambleLines + i], DAYS[i])

\* C27: in every day line a save writes, the value between the outer double quotes
\* holds none of ; & < > $ ` and no control character, and every double quote in it
\* stands behind an odd number of backslashes; the decoder's per-day pattern
\* captures the whole value.
C27_ValueStaysQuoted ==
    Saved => SafeDayLines(FileLines(answers_file.content))

\* texts with quotes, backslashes, $ and control characters were saved: the file
\* holds a JSON quote behind three backslashes
C27_Witness ==
    /\ Saved
    /\ "Sun" \in DOMAIN call.arg
    /\ call.arg["Sun"].study_time = <<"\\", "\"">>
    /\ Contains(answers_file.content, <<"a", "m", "e", "\\", "\"", ":", " ", "\\", "\"", "\\", "\\", "\\", "\"", "\\", "\"">>)

(***************************************************************************)
(* C28: the sign of the study hours.                                       *)
(***************************************************************************)
\* every study_time of the schedule is empty or of the form H:MM-H:MM
AllFormOrEmpty == \A d \in DaySet : schedule[d].study_time = <<>> \/ IsHMM(schedule[d].study_time)

\* C28: for a schedule whose study_time strings have the form H:MM-H:MM, every
\* weekday's contribution to 'Total Study Hours Scheduled' is non-negative, and so
\* the reported total is not negative.
C28_StudyHoursNonNegative ==
    (call.op = "text" /\ AllFormOrEmpty) =>
        /\ \A d \in DaySet : StudyMinutes(schedule[d].study_time) >= 0
        /\ ReportedTotal[1] # "-"

\* the same for the study_times whose end, read on the clock the code assumes (12
\* added to an end hour below the start hour), is not before the start
EndNotBeforeStart(t) ==
    IsHMM(t) =>
        With([i \in 1..4 |-> PyInt(TimeFields(t)[i])],
             LAMBDA f : \/ f[3] > f[1]
                        \/ f[3] = f[1] /\ f[4] >= f[2]
                        \/ f[3] < f[1] /\ (f[3] + 12) * 60 + f[4] >= f[1] * 60 + f[2])

C28_NonNegativeWhenEndLater ==
    (call.op = "text" /\ AllFormOrEmpty /\ \A d \in DaySet : EndNotBeforeStart(schedule[d].study_time)) =>
        /\ \A d \in DaySet : StudyMinutes(schedule[d].study_time) >= 0
        /\ ReportedTotal[1] # "-"

\* Monday 3:30-3:00 alone: the report shows a total of -0.5
C28_NegativeTotalReported ==
    /\ call.op = "text"
    /\ schedule = [EmptyWeek EXCEPT !["Monday"].study_time = <<"3", ":", "3", "0", "-", "3", ":", "0", "0">>]
    /\ ReportedTotal = <<"-", "0", ".", "5">>

\* a rollover that gives a positive duration
C28_RolloverReported ==
    /\ call.op = "text" /\ AllFormOrEmpty
    /\ schedule["Sun"].study_time = <<"1", "0", ":", "4", "5", "-", "9", ":", "3", "0">>
    /\ schedule["Monday"].study_time = <<>> /\ schedule["Wed"].study_time = <<>>
    /\ StudyMinutes(schedule["Sun"].study_time) = 645

(***************************************************************************)
(* C29: the backups of successive saves.                                   *)
(***************************************************************************)
\* the contents the backup files hold
BackupContents(files) == {b.content : b \in files}

\* C29: when the backup copies succeed, a save keeps in some backup file the content
\* it overwrites, and its backup replaces the backup of no earlier save: every
\* content the backups held before the save they still hold after it, whatever the
\* time between the saves.
C29_BackupsNeverReplaced ==
    [][SaveStep =>
         /\ answers_file.exists => answers_file.content \in BackupContents(backups')
         /\ BackupContents(backups) \subseteq BackupContents(backups')]_vars

\* the same for a save made in a second in which no backup was made before
C29_KeptAcrossSeconds ==
    [][(SaveStep /\ \A b \in backups : b.ts # now) =>
         /\ answers_file.exists => answers_file.content \in BackupContents(backups')
         /\ backups \subseteq backups']_vars

\* three saves within one second: the backup of the second save was replaced by the
\* backup of the third, and the content the first save wrote is in no backup
C29_BackupReplaced ==
    /\ call.op = "save" /\ call.saves = 3 /\ now = 0
    /\ Cardinality(backups) = 1
    /\ \E W \in BackupInputs :
          /\ WrittenText(W, Len(DAYS)) # answers_file.content
          /\ WrittenText(W, Len(DAYS)) \notin BackupContents(backups)

\* three saves in two seconds: both overwritten contents are held
C29_TwoBackupsHeld ==
    /\ call.op = "save" /\ call.saves = 3 /\ now = 1
    /\ Cardinality(BackupContents(backups)) = 2

(***************************************************************************)
(* C30: _save_all_gui and check_unsaved_changes                            *)
(***************************************************************************)
\* _save_all_gui has just returned, and nothing was edited since
SavedAllGui == call.op = "save_all_gui"

BothSaved == call.arg = <<TRUE, TRUE>>

\* C30: _save_all_gui returns True exactly when the schedule save and the notes save
\* both succeeded, and a check_unsaved_changes() that follows a True return with no
\* edit in between returns False, whatever the day fields, plan lists and notes hold
C30_SaveAllThenNoUnsavedChanges ==
    [][/\ call'.op = "save_all_gui" => (call'.ret <=> (call'.arg = <<TRUE, TRUE>>))
       /\ (SavedAllGui /\ call.ret /\ call'.op = "check_unsaved_changes") => ~call'.ret]_vars

\* the return value is True exactly when both saves succeeded, and then the record
\* file and the notes file hold what was collected from the window
C30_TrueIffBothSaved ==
    SavedAllGui =>
        /\ call.ret <=> BothSaved
        /\ call.ret => /\ answers_file.exists
                       /\ answers_file.content = WrittenText(_collect_data_from_gui, Len(DAYS))
                       /\ notes_file.exists
                       /\ notes_file.content = Strip(NotesWidgetGet)

\* after a True return the schedule part of the check is False: the manager holds
\* exactly what _collect_data_from_gui collects again, fields stripped
C30_ScheduleUnmodifiedAfterSave ==
    (SavedAllGui /\ call.ret) => ~_is_schedule_modified

\* notes the window holds without leading whitespace and without trailing whitespace
\* other than newlines
NotesTrimmed == RStripNewlines(NotesWidgetGet) = Strip(NotesWidgetGet)

\* with such notes, check_unsaved_changes() returns False right after a True return
C30_TrimmedNotesNoUnsavedChanges ==
    [][(SavedAllGui /\ call.ret /\ NotesTrimmed /\ call'.op = "check_unsaved_changes")
           => ~call'.ret]_vars

\* _save_all_gui returned True and check_unsaved_changes() reports unsaved changes
C30_UnsavedAfterSave ==
    /\ SavedAllGui /\ call.ret
    /\ UnsavedChanges
    /\ ~gui.notes_modified_flag
    /\ ~_is_schedule_modified

\* a True return with fields that had surrounding blanks and a plan in the list
C30_StrippedFieldsSaved ==
    /\ SavedAllGui /\ call.ret
    /\ gui.day_vars[GuiDay].goals # Strip(gui.day_vars[GuiDay].goals)
    /\ gui.day_vars[GuiDay].plans # <<>>
    /\ NotesTrimmed /\ gui.notes_text # <<>>
    /\ ~UnsavedChanges

\* a return of False after the schedule save succeeded and the notes save failed
C30_PartialSave ==
    SavedAllGui /\ ~call.ret /\ call.arg = <<TRUE, FALSE>>

====
